---- MODULE Spec2Model ----
(***************************************************************************)
(* Craftea structural geometry and validation engine.                      *)
(*                                                                         *)
(* Coordinates are fixed-point integers in millimetres (1 m = 1000), the   *)
(* resolution to which the resolver rounds junction coordinates.  Names    *)
(* are strings.  A sorted list of names that the code only ever compares   *)
(* for equality (the issue signature, the serialized line set) is kept as  *)
(* the bag of its elements: two sorted lists are equal exactly when their  *)
(* bags are.                                                               *)
(***************************************************************************)
EXTENDS Integers, Sequences, FiniteSets, TLC

VARIABLES
    nodes,              \* nodes[s]: CrafteaState.nodes of session s (array of {name,x,y,z})
    lines,              \* lines[s]: CrafteaState.lines of session s (array of {name,node1,node2})
    conversationId,     \* conversationId[s]: ToolContext.conversationId of session s
    validationHistory,  \* module-level Map: key -> {count,lastErrorSignature,lastActions}
    asciiHistory,       \* module-level Map of validateAsciiStructure: key -> {count,lastError}
    valLog,             \* valLog[s]: observer, the validations of session s so far
    shadow,             \* shadow[s]: observer, the history session s would have alone
    store,              \* the editor store: its nodes and lines Maps, in insertion order
    storeLog,           \* observer, the last call made on the editor store
    pc                  \* position of the caller in its run

vars == <<nodes, lines, conversationId, validationHistory, asciiHistory, valLog, shadow, store,
          storeLog, pc>>

----------------------------------------------------------------------------
(* Bounds of the model *)

MaxCalls == 3

(* Program constants, in millimetres *)

LevelTolerance == 100
LargeSpanMin == 2000
RectangleCorners == 4
ApexMaxPeers == 2
SignatureIssues == 3
ActionWindow == 5
BreakerThreshold == 3
OscillationBoost == 2

----------------------------------------------------------------------------
(* Generic helpers *)

Abs(v) == IF v < 0 THEN 0 - v ELSE v

SetMin(S) == CHOOSE m \in S : \A o \in S : m <= o

SetMax(S) == CHOOSE m \in S : \A o \in S : m >= o

Range(seq) == {seq[i] : i \in 1..Len(seq)}

\* The bag of the elements of a sequence: what a sorted copy of it is, up to equality
BagOf(seq) == [e \in Range(seq) |-> Cardinality({i \in 1..Len(seq) : seq[i] = e})]

RECURSIVE Flatten(_)
Flatten(seqs) == IF seqs = <<>> THEN <<>> ELSE Head(seqs) \o Flatten(Tail(seqs))

\* Array.prototype.find on nodes, as the index of the first match (0: undefined)
FindNodeIndex(ns, name) ==
    LET hits == {i \in 1..Len(ns) : ns[i].name = name}
    IN IF hits = {} THEN 0 ELSE SetMin(hits)

\* state.lines.some(line between a and b, in either direction)
HasLineBetween(ls, a, b) ==
    \E i \in 1..Len(ls) :
        \/ ls[i].node1 = a /\ ls[i].node2 = b
        \/ ls[i].node2 = a /\ ls[i].node1 = b

NodeNames(ns) == {ns[i].name : i \in 1..Len(ns)}

LineNames(ls) == {ls[i].name : i \in 1..Len(ls)}

----------------------------------------------------------------------------
(* executeValidateStructure, step 1: height tiers *)

MinY(ns) == SetMin({ns[i].y : i \in 1..Len(ns)})

MaxY(ns) == SetMax({ns[i].y : i \in 1..Len(ns)})

IsFloor(n, ns) == Abs(n.y - MinY(ns)) < LevelTolerance

IsRoof(n, ns) == Abs(n.y - MaxY(ns)) < LevelTolerance

IsMid(n, ns) == Abs(n.y - MinY(ns)) >= LevelTolerance /\ Abs(n.y - MaxY(ns)) >= LevelTolerance

FloorNodes(ns) == SelectSeq(ns, LAMBDA n : IsFloor(n, ns))

RoofNodes(ns) == SelectSeq(ns, LAMBDA n : IsRoof(n, ns))

MidNodes(ns) == SelectSeq(ns, LAMBDA n : IsMid(n, ns))

\* One StructuralError.  affectedNodes / affectedLines may be absent (has* = FALSE);
\* desc names the template of the description text.
Issue(type, severity, desc, hasNodes, affNodes, hasLines, affLines) ==
    [type |-> type, severity |-> severity, desc |-> desc,
     hasNodes |-> hasNodes, affectedNodes |-> affNodes,
     hasLines |-> hasLines, affectedLines |-> affLines]

\* a variant for which one of the two horizontal coordinates suffices
IsVerticalEither(a, b) == Abs(a.x - b.x) < LevelTolerance \/ Abs(a.z - b.z) < LevelTolerance

\* a variant that takes a line for vertical only when X and Z are equal
IsVerticalExact(a, b) == a.x = b.x /\ a.z = b.z

IsVertical(a, b) == Abs(a.x - b.x) < LevelTolerance /\ Abs(a.z - b.z) < LevelTolerance

(* step 2: illogical connections, the issues of one line in the order pushed *)
LineIssues(ns, line) ==
    LET i1 == FindNodeIndex(ns, line.node1)
        i2 == FindNodeIndex(ns, line.node2)
    IN IF i1 = 0 \/ i2 = 0 THEN <<>>
       ELSE
        LET node1 == ns[i1]
            node2 == ns[i2]
            minY == MinY(ns)
            maxY == MaxY(ns)
            yRange == maxY - minY
            yDiff == Abs(node1.y - node2.y)
            isFloor1 == Abs(node1.y - minY) < LevelTolerance
            isFloor2 == Abs(node2.y - minY) < LevelTolerance
            isMid1 == ~isFloor1 /\ Abs(node1.y - maxY) >= LevelTolerance
            isMid2 == ~isFloor2 /\ Abs(node2.y - maxY) >= LevelTolerance
            isRoof1 == Abs(node1.y - maxY) < LevelTolerance
            isRoof2 == Abs(node2.y - maxY) < LevelTolerance
            isVertical == IsVertical(node1, node2)
            roofFloor ==
                IF ((isRoof1 /\ isFloor2) \/ (isFloor1 /\ isRoof2)) /\ ~isVertical
                THEN <<Issue("illogical_connection", "critical",
                             "illogical diagonal from roof to floor",
                             TRUE, <<line.node1, line.node2>>, TRUE, <<line.name>>)>>
                ELSE <<>>
            midFloor ==
                IF ((isMid1 /\ isFloor2) \/ (isFloor1 /\ isMid2)) /\ ~isVertical
                THEN <<Issue("illogical_connection", "critical",
                             "should be rectangular perimeter edges instead",
                             TRUE, <<line.node1, line.node2>>, TRUE, <<line.name>>)>>
                ELSE <<>>
            largeSpan ==
                IF 10 * yDiff > 8 * yRange /\ yDiff > LargeSpanMin /\ ~isVertical
                THEN <<Issue("illogical_connection", "warning",
                             "spans large vertical distance",
                             FALSE, <<>>, TRUE, <<line.name>>)>>
                ELSE <<>>
        IN roofFloor \o midFloor \o largeSpan

IllogicalIssues(ns, ls) == Flatten([i \in 1..Len(ls) |-> LineIssues(ns, ls[i])])

(* step 3a: roof completeness *)
\* a variant that takes uniqueY[uniqueY.length - 1], the highest Y
WallTopYHighest(ns) ==
    IF ns = <<>> THEN {} ELSE {SetMax({ns[i].y : i \in 1..Len(ns)})}

\* uniqueY[uniqueY.length - 2]: the second highest distinct Y, as a set (empty: undefined)
WallTopY(ns) ==
    LET ys == {ns[i].y : i \in 1..Len(ns)}
    IN IF Cardinality(ys) < 2 THEN {} ELSE {SetMax(ys \ {SetMax(ys)})}

WallTopNodes(ns) ==
    SelectSeq(ns, LAMBDA n : \E wy \in WallTopY(ns) : Abs(n.y - wy) < LevelTolerance)

RoofApexes(ns) ==
    LET roof == RoofNodes(ns)
    IN SelectSeq(roof, LAMBDA apex :
          Len(SelectSeq(roof, LAMBDA n : Abs(n.y - apex.y) < LevelTolerance)) <= ApexMaxPeers)

ApexIssues(ns, ls, apex) ==
    LET wallTop == WallTopNodes(ns)
        connected == {i \in 1..Len(wallTop) : HasLineBetween(ls, apex.name, wallTop[i].name)}
        expected == IF Len(wallTop) = RectangleCorners THEN 4 ELSE 2
        missing == SelectSeq([i \in 1..Len(wallTop) |-> [at |-> i, name |-> wallTop[i].name]],
                             LAMBDA m : m.at \notin connected)
    IN IF Cardinality(connected) < expected
       THEN <<Issue("missing_connection", "critical", "incomplete roof pyramid",
                    TRUE, <<apex.name>> \o [i \in 1..Len(missing) |-> missing[i].name],
                    FALSE, <<>>)>>
       ELSE <<>>

RoofIssues(ns, ls) ==
    LET apexes == RoofApexes(ns)
    IN IF Len(RoofNodes(ns)) > 0 /\ Len(apexes) > 0 /\ Len(WallTopNodes(ns)) > 0
       THEN Flatten([i \in 1..Len(apexes) |-> ApexIssues(ns, ls, apexes[i])])
       ELSE <<>>

(* step 3b: vertical walls from floor nodes to the mid node above them *)
WallIssue(ns, ls, floorNode) ==
    LET mid == MidNodes(ns)
        above == {i \in 1..Len(mid) :
                     /\ Abs(mid[i].x - floorNode.x) < LevelTolerance
                     /\ Abs(mid[i].z - floorNode.z) < LevelTolerance
                     /\ mid[i].y > floorNode.y}
    IN IF above = {} THEN <<>>
       ELSE LET wallTopNode == mid[SetMin(above)]
            IN IF HasLineBetween(ls, floorNode.name, wallTopNode.name) THEN <<>>
               ELSE <<Issue("missing_connection", "critical", "Missing vertical wall",
                            TRUE, <<floorNode.name, wallTopNode.name>>, FALSE, <<>>)>>

WallIssues(ns, ls) ==
    LET floor == FloorNodes(ns)
    IN IF Len(floor) > 0 /\ Len(MidNodes(ns)) > 0
       THEN Flatten([i \in 1..Len(floor) |-> WallIssue(ns, ls, floor[i])])
       ELSE <<>>

(* steps 3c and 3d: the perimeter of a 4-node tier *)
\* sorted.find(n => n.x === wantX && n.z === wantZ): the sort by (z, x) is stable and
\* all matches agree in x and z, so the first match is the first one of the tier.
Corner(tier, wantX, wantZ) ==
    LET hits == {i \in 1..Len(tier) : tier[i].x = wantX /\ tier[i].z = wantZ}
    IN IF hits = {} THEN <<>> ELSE <<tier[SetMin(hits)]>>

\* a variant that takes an edge for present only when a line runs from c1 to c2
EdgeIssueForward(ls, c1, c2, desc) ==
    IF c1 = <<>> \/ c2 = <<>> THEN <<>>
    ELSE IF \E i \in 1..Len(ls) : ls[i].node1 = c1[1].name /\ ls[i].node2 = c2[1].name
    THEN <<>>
    ELSE <<Issue("missing_connection", "critical", desc,
                 TRUE, <<c1[1].name, c2[1].name>>, FALSE, <<>>)>>

EdgeIssue(ls, c1, c2, desc) ==
    IF c1 = <<>> \/ c2 = <<>> THEN <<>>
    ELSE IF HasLineBetween(ls, c1[1].name, c2[1].name) THEN <<>>
    ELSE <<Issue("missing_connection", "critical", desc,
                 TRUE, <<c1[1].name, c2[1].name>>, FALSE, <<>>)>>

RectangleIssues(ls, tier, desc) ==
    LET minX == SetMin({tier[i].x : i \in 1..Len(tier)})
        maxX == SetMax({tier[i].x : i \in 1..Len(tier)})
        minZ == SetMin({tier[i].z : i \in 1..Len(tier)})
        maxZ == SetMax({tier[i].z : i \in 1..Len(tier)})
        frontLeft == Corner(tier, minX, minZ)
        frontRight == Corner(tier, maxX, minZ)
        backRight == Corner(tier, maxX, maxZ)
        backLeft == Corner(tier, minX, maxZ)
    IN EdgeIssue(ls, frontLeft, frontRight, desc) \o EdgeIssue(ls, frontRight, backRight, desc)
       \o EdgeIssue(ls, backRight, backLeft, desc) \o EdgeIssue(ls, backLeft, frontLeft, desc)

\* Math.round(node.z * 10) / 10, in tenths of a metre
ZKey(n) == (n.z + 50) \div 100

\* Object.entries(zGroups): integer-like keys ascending, then the others as inserted
RECURSIVE AscendingKeys(_)
AscendingKeys(S) == IF S = {} THEN <<>> ELSE <<SetMin(S)>> \o AscendingKeys(S \ {SetMin(S)})

RECURSIVE InsertionKeys(_, _)
InsertionKeys(floor, seen) ==
    IF floor = <<>> THEN <<>>
    ELSE LET k == ZKey(Head(floor))
         IN IF k \in seen \/ (k >= 0 /\ k % 10 = 0) THEN InsertionKeys(Tail(floor), seen)
            ELSE <<k>> \o InsertionKeys(Tail(floor), seen \cup {k})

\* a.x - b.x sort of one Z plane (stable insertion sort)
RECURSIVE SortByX(_)
SortByX(seq) ==
    IF seq = <<>> THEN <<>>
    ELSE LET rest == SortByX(Tail(seq))
             h == Head(seq)
             before == {i \in 1..Len(rest) : rest[i].x < h.x}
             k == IF before = {} THEN 0 ELSE SetMax(before)
         IN SubSeq(rest, 1, k) \o <<h>> \o SubSeq(rest, k + 1, Len(rest))

PlaneIssues(ls, plane) ==
    LET byX == SortByX(plane)
        gap(i) == IF HasLineBetween(ls, byX[i].name, byX[i + 1].name) THEN <<>>
                  ELSE <<Issue("missing_connection", "warning", "are not connected",
                               TRUE, <<byX[i].name, byX[i + 1].name>>, FALSE, <<>>)>>
    IN IF Len(byX) >= 2 THEN Flatten([i \in 1..(Len(byX) - 1) |-> gap(i)]) ELSE <<>>

FloorPerimeterIssues(ns, ls) ==
    LET floor == FloorNodes(ns)
        zKeys == {ZKey(floor[i]) : i \in 1..Len(floor)}
        keys == AscendingKeys({k \in zKeys : k >= 0 /\ k % 10 = 0}) \o InsertionKeys(floor, {})
    IN IF Len(floor) = RectangleCorners THEN RectangleIssues(ls, floor, "incomplete floor perimeter")
       ELSE IF Len(floor) > RectangleCorners
       THEN Flatten([j \in 1..Len(keys) |->
                PlaneIssues(ls, SelectSeq(floor, LAMBDA n : ZKey(n) = keys[j]))])
       ELSE <<>>

MidPerimeterIssues(ns, ls) ==
    LET mid == MidNodes(ns)
    IN IF Len(mid) = RectangleCorners THEN RectangleIssues(ls, mid, "incomplete wall-top perimeter")
       ELSE <<>>

(* step 4: gravity analysis *)
\* adjacency.get(name): the names joined to name by a line; empty for a name no node has
Adjacency(ns, ls, name) ==
    IF name \notin NodeNames(ns) THEN {}
    ELSE {ls[i].node2 : i \in {j \in 1..Len(ls) : ls[j].node1 = name}}
         \cup {ls[i].node1 : i \in {j \in 1..Len(ls) : ls[j].node2 = name}}

\* findGroundedNodes(nodeName): the depth-first traversal, threading visited and grounded
RECURSIVE FindGroundedNodes(_, _, _, _), VisitNeighbors(_, _, _, _)
FindGroundedNodes(ns, ls, nodeName, st) ==
    IF nodeName \in st.visited THEN st
    ELSE LET seen == [st EXCEPT !.visited = @ \cup {nodeName}]
             at == FindNodeIndex(ns, nodeName)
         IN IF at = 0 THEN seen
            ELSE VisitNeighbors(ns, ls, Adjacency(ns, ls, nodeName),
                     IF Abs(ns[at].y - MinY(ns)) < LevelTolerance
                     THEN [seen EXCEPT !.grounded = @ \cup {nodeName}]
                     ELSE seen)

VisitNeighbors(ns, ls, todo, st) ==
    \* a call on a visited neighbour returns at once
    IF todo \ st.visited = {} THEN st
    ELSE LET n == CHOOSE m \in todo : TRUE
         IN VisitNeighbors(ns, ls, todo \ {n}, FindGroundedNodes(ns, ls, n, st))

RECURSIVE TraverseFrom(_, _, _, _)
TraverseFrom(ns, ls, starts, st) ==
    IF starts = <<>> THEN st
    ELSE TraverseFrom(ns, ls, Tail(starts), FindGroundedNodes(ns, ls, Head(starts).name, st))

\* one pass of the while (changed) loop over state.nodes, from node i on
RECURSIVE RelaxPass(_, _, _, _)
RelaxPass(ns, ls, i, grounded) ==
    IF i > Len(ns) THEN grounded
    ELSE RelaxPass(ns, ls, i + 1,
            IF ns[i].name \notin grounded /\ Adjacency(ns, ls, ns[i].name) \cap grounded # {}
            THEN grounded \cup {ns[i].name}
            ELSE grounded)

\* the loop made to run one more pass after the pass that changes nothing
RECURSIVE RelaxExtraPass(_, _, _, _)
RelaxExtraPass(ns, ls, grounded, passes) ==
    LET next == RelaxPass(ns, ls, 1, grounded)
    IN IF next = grounded THEN [grounded |-> grounded, passes |-> passes + 2]
       ELSE RelaxExtraPass(ns, ls, next, passes + 1)

\* the passes run until one changes nothing; passes counts them
RECURSIVE Relax(_, _, _, _)
Relax(ns, ls, grounded, passes) ==
    LET next == RelaxPass(ns, ls, 1, grounded)
    IN IF next = grounded THEN [grounded |-> grounded, passes |-> passes + 1]
       ELSE Relax(ns, ls, next, passes + 1)

GroundedNodes(ns, ls) ==
    Relax(ns, ls, TraverseFrom(ns, ls, FloorNodes(ns),
                               [visited |-> {}, grounded |-> {}]).grounded, 0).grounded

FloatingNodes(ns, ls) ==
    LET grounded == GroundedNodes(ns, ls)
    IN SelectSeq(ns, LAMBDA n : n.name \notin grounded)

FloatingIssues(ns, ls) ==
    LET floating == FloatingNodes(ns, ls)
    IN [i \in 1..Len(floating) |->
          Issue("missing_connection", "critical",
                "has no structural path to ground - floating structure",
                TRUE, <<floating[i].name>>, FALSE, <<>>)]

(* step 5: the merged report *)
StructuralErrors(ns, ls) ==
    IllogicalIssues(ns, ls) \o RoofIssues(ns, ls) \o WallIssues(ns, ls)
    \o FloorPerimeterIssues(ns, ls) \o MidPerimeterIssues(ns, ls) \o FloatingIssues(ns, ls)

\* every issue counted as critical, whatever its severity
AnySeverityErrors(errors) == errors

CriticalErrors(errors) == SelectSeq(errors, LAMBDA e : e.severity = "critical")

Warnings(errors) == SelectSeq(errors, LAMBDA e : e.severity = "warning")

----------------------------------------------------------------------------
(* step 6: the circuit breaker *)

Undefined == "<undefined>"

\* context.conversationId || 'default'
HistoryKey(cid) == IF cid = Undefined \/ cid = "" THEN "default" ELSE cid

\* JSON.stringify(criticalErrors.slice(0, 3).map(type, sorted lines, sorted nodes))
ErrorSignature(critical) ==
    [i \in 1..(IF Len(critical) < SignatureIssues THEN Len(critical) ELSE SignatureIssues) |->
        [type |-> critical[i].type,
         hasLines |-> critical[i].hasLines, affectedLines |-> BagOf(critical[i].affectedLines),
         hasNodes |-> critical[i].hasNodes, affectedNodes |-> BagOf(critical[i].affectedNodes)]]

\* state.lines.map(l => `${l.node1}-${l.node2}`).sort().join(',')
CurrentLines(ls) == BagOf([i \in 1..Len(ls) |-> <<ls[i].node1, ls[i].node2>>])

\* validationHistory.get(id) || { count: 0, lastErrorSignature: '', lastActions: [] }
FreshHistory == [count |-> 0, lastErrorSignature |-> <<>>, lastActions |-> <<>>]

HistoryOrFresh(stored) == IF stored = <<>> THEN FreshHistory ELSE stored[1]

NextCountRestart(h, sig, cur) ==
    IF h.lastErrorSignature = sig /\ h.count < BreakerThreshold
    THEN IF cur \in Range(h.lastActions) THEN h.count + 1 + OscillationBoost ELSE h.count + 1
    ELSE 1

\* the count after this failing validation
NextCount(h, sig, cur) ==
    IF h.lastErrorSignature = sig
    THEN IF cur \in Range(h.lastActions) THEN h.count + 1 + OscillationBoost ELSE h.count + 1
    ELSE 1

\* lastActions.push(currentLines), keeping the recent 5
PushAction(actions, cur) ==
    LET pushed == Append(actions, cur)
    IN IF Len(pushed) > ActionWindow THEN Tail(pushed) ELSE pushed

Observe(h, sig, cur) ==
    [count |-> NextCount(h, sig, cur),
     lastErrorSignature |-> sig,
     lastActions |-> PushAction(h.lastActions, cur)]

TriggersLate(count) == count >= BreakerThreshold + 1

Triggers(count) == count >= BreakerThreshold

\* String.prototype.includes
Includes(text, word) ==
    \E i \in 1..(Len(text) - Len(word) + 1) : SubSeq(text, i, i + Len(word) - 1) = word

\* hasFloatingError && hasIllogicalDiagonal, both looked up in the descriptions of the
\* critical issues
ConflictDetected(critical) ==
    /\ \E i \in 1..Len(critical) : Includes(critical[i].desc, "no structural path to ground")
    /\ \E i \in 1..Len(critical) :
          Includes(critical[i].desc, "illogical") /\ Includes(critical[i].desc, "diagonal")

\* The whole of executeValidateStructure on (nodes, lines) with the stored history of
\* its key: the data returned and the history stored afterwards (<<>>: no record).
\* Only the triggered decision has conflictingRequirements; it is FALSE where the data
\* returned lacks it.
ValidateStructure(ns, ls, stored) ==
    IF Len(ns) = 0
    THEN [valid |-> TRUE, errors |-> <<>>, circuitBreakerTriggered |-> FALSE,
          conflictingRequirements |-> FALSE,
          count |-> 0, signature |-> <<>>, stored |-> stored]
    ELSE LET errors == StructuralErrors(ns, ls)
             critical == CriticalErrors(errors)
             valid == Len(critical) = 0
             history == Observe(HistoryOrFresh(stored), ErrorSignature(critical), CurrentLines(ls))
         IN IF valid
            THEN [valid |-> TRUE, errors |-> errors, circuitBreakerTriggered |-> FALSE,
                  conflictingRequirements |-> FALSE,
                  count |-> 0, signature |-> <<>>, stored |-> <<>>]
            ELSE [valid |-> FALSE, errors |-> errors,
                  circuitBreakerTriggered |-> Triggers(history.count),
                  conflictingRequirements |->
                      Triggers(history.count) /\ ConflictDetected(critical),
                  count |-> history.count, signature |-> history.lastErrorSignature,
                  stored |-> <<history>>]

----------------------------------------------------------------------------
(* The editing tools.  Each operator is the whole handler: the ToolResult's  *)
(* success flag and the nodes and lines of the state afterwards.             *)

ToolOutcome(success, ns, ls) == [success |-> success, nodes |-> ns, lines |-> ls]

\* let counter = 1; while (used has `${prefix}${counter}`) counter++
LowestUnused(prefix, used) ==
    prefix \o ToString(SetMin({k \in 1..(Cardinality(used) + 1) : (prefix \o ToString(k)) \notin used}))

ExecuteCreateNode(ns, ls, x, y, z, name) ==
    LET nodeName == IF name = Undefined \/ name = "" \/ name \in NodeNames(ns)
                    THEN LowestUnused("N", NodeNames(ns))
                    ELSE name
    IN ToolOutcome(TRUE, Append(ns, [name |-> nodeName, x |-> x, y |-> y, z |-> z]), ls)

ExecuteMoveNode(ns, ls, name, x, y, z) ==
    LET at == FindNodeIndex(ns, name)
    IN IF at = 0 THEN ToolOutcome(FALSE, ns, ls)
       ELSE ToolOutcome(TRUE, [ns EXCEPT ![at] = [name |-> name, x |-> x, y |-> y, z |-> z]], ls)

\* createLine refusing a second line only from node1 to node2
ExecuteCreateLineOneWay(ns, ls, node1, node2, name) ==
    IF node1 = node2 THEN ToolOutcome(FALSE, ns, ls)
    ELSE IF FindNodeIndex(ns, node1) = 0 \/ FindNodeIndex(ns, node2) = 0
    THEN ToolOutcome(FALSE, ns, ls)
    ELSE IF \E i \in 1..Len(ls) : ls[i].node1 = node1 /\ ls[i].node2 = node2
    THEN ToolOutcome(FALSE, ns, ls)
    ELSE ToolOutcome(TRUE, ns, Append(ls, [name |-> LowestUnused("L", LineNames(ls)),
                                           node1 |-> node1, node2 |-> node2]))

ExecuteCreateLine(ns, ls, node1, node2, name) ==
    IF node1 = node2 THEN ToolOutcome(FALSE, ns, ls)
    ELSE IF FindNodeIndex(ns, node1) = 0 \/ FindNodeIndex(ns, node2) = 0
    THEN ToolOutcome(FALSE, ns, ls)
    ELSE IF HasLineBetween(ls, node1, node2) THEN ToolOutcome(FALSE, ns, ls)
    ELSE LET lineName == IF name = Undefined \/ name = "" \/ name \in LineNames(ls)
                         THEN LowestUnused("L", LineNames(ls))
                         ELSE name
         IN ToolOutcome(TRUE, ns, Append(ls, [name |-> lineName, node1 |-> node1, node2 |-> node2]))

ExecuteDeleteNode(ns, ls, name) ==
    LET at == FindNodeIndex(ns, name)
    IN IF at = 0 THEN ToolOutcome(FALSE, ns, ls)
       ELSE ToolOutcome(TRUE,
                SubSeq(ns, 1, at - 1) \o SubSeq(ns, at + 1, Len(ns)),
                SelectSeq(ls, LAMBDA l : l.node1 # name /\ l.node2 # name))

ExecuteDeleteLine(ns, ls, name) ==
    LET hits == {i \in 1..Len(ls) : ls[i].name = name}
    IN IF hits = {} THEN ToolOutcome(FALSE, ns, ls)
       ELSE ToolOutcome(TRUE, ns,
                SubSeq(ls, 1, SetMin(hits) - 1) \o SubSeq(ls, SetMin(hits) + 1, Len(ls)))

----------------------------------------------------------------------------
(* lineLineIntersection and executeFixIntersections.  Coordinates are whole  *)
(* millimetres; t, s and the intersection point are exact fractions over the *)
(* common denominator denom.                                                 *)

\* |denom| < 0.0001 (m^4) is |denom| < ParallelDenom in mm^4
ParallelDenom == 100000000

\* ENDPOINT_TOLERANCE = 0.005 as EndpointPerMille / PerMille
EndpointPerMille == 5

PerMille == 1000

\* DISTANCE_TOLERANCE = 0.5 (m) in millimetres
DistanceTolerance == 500

RECURSIVE Gcd(_, _)
Gcd(a, b) == IF b = 0 THEN a ELSE Gcd(b, a % b)

Vec(from, to) == [x |-> to.x - from.x, y |-> to.y - from.y, z |-> to.z - from.z]

Dot(u, v) == u.x * v.x + u.y * v.y + u.z * v.z

Shrink(v, g) == [x |-> v.x \div g, y |-> v.y \div g, z |-> v.z \div g]

\* Math.round of the fraction num / den (den > 0): halves go up
RoundFraction(num, den) == (2 * num + den) \div (2 * den)

\* The common factor of the components of d1, d2 and w (1 when all are 0).  The
\* directions and the offset are divided by it before the products are formed: t and
\* s do not depend on it, denom scales by its 4th power and the distance by it.
CommonUnit(d1, d2, w) ==
    LET g == Gcd(Gcd(Gcd(Gcd(Abs(d1.x), Abs(d1.y)), Gcd(Abs(d1.z), Abs(d2.x))),
                     Gcd(Gcd(Abs(d2.y), Abs(d2.z)), Gcd(Abs(w.x), Abs(w.y)))),
                 Abs(w.z))
    IN IF g = 0 THEN 1 ELSE g

\* denom and the numerators of t = (b*e - c*d) / denom and s = (a*e - b*d) / denom
Solve(d1, d2, w) ==
    LET a == Dot(d1, d1)
        b == Dot(d1, d2)
        c == Dot(d2, d2)
        d == Dot(d1, w)
        e == Dot(d2, w)
    IN [denom |-> a * c - b * b, tn |-> b * e - c * d, sn |-> a * e - b * d]

\* a variant without the test of denom
IsParallelUnchecked(denom, unit) == FALSE

\* |denom| < 0.0001 for the reduced denom: denom * unit^4 < ParallelDenom
IsParallel(denom, unit) ==
    Abs(denom) <= ((((ParallelDenom - 1) \div unit) \div unit) \div unit) \div unit

\* t or s outside [ENDPOINT_TOLERANCE, 1 - ENDPOINT_TOLERANCE]
OutsideSegment(num, denom) ==
    \/ PerMille * num < EndpointPerMille * denom
    \/ PerMille * num > (PerMille - EndpointPerMille) * denom

\* dist > DISTANCE_TOLERANCE, with (intersection - q_at_s) * denom = gap units
IsSkew(d1, d2, w, sol, unit) ==
    LET gx == w.x * sol.denom + sol.tn * d1.x - sol.sn * d2.x
        gy == w.y * sol.denom + sol.tn * d1.y - sol.sn * d2.y
        gz == w.z * sol.denom + sol.tn * d1.z - sol.sn * d2.z
        gap2 == gx * gx + gy * gy + gz * gz
    IN /\ gap2 # 0
       /\ unit * unit * gap2 > DistanceTolerance * DistanceTolerance * sol.denom * sol.denom

NoIntersection == [hit |-> FALSE, x |-> 0, y |-> 0, z |-> 0, den |-> 1]

\* the checks of lineLineIntersection on the reduced vectors; the point p1 + t * d1
\* is returned as three numerators over den
IntersectionOf(p1, d1full, d1, d2, w, sol, unit) ==
    IF IsParallel(sol.denom, unit) THEN NoIntersection
    ELSE IF OutsideSegment(sol.tn, sol.denom) \/ OutsideSegment(sol.sn, sol.denom)
    THEN NoIntersection
    ELSE IF IsSkew(d1, d2, w, sol, unit) THEN NoIntersection
    ELSE [hit |-> TRUE,
          x |-> p1.x * sol.denom + sol.tn * d1full.x,
          y |-> p1.y * sol.denom + sol.tn * d1full.y,
          z |-> p1.z * sol.denom + sol.tn * d1full.z,
          den |-> sol.denom]

Reduced(p1, d1full, d2full, wfull, unit) ==
    IntersectionOf(p1, d1full, Shrink(d1full, unit), Shrink(d2full, unit), Shrink(wfull, unit),
                   Solve(Shrink(d1full, unit), Shrink(d2full, unit), Shrink(wfull, unit)), unit)

LineLineIntersection(p1, p2, q1, q2) ==
    Reduced(p1, Vec(p1, p2), Vec(q1, q2), Vec(q1, p1),
            CommonUnit(Vec(p1, p2), Vec(q1, q2), Vec(q1, p1)))

SharesNode(l1, l2) ==
    \/ l1.node1 = l2.node1 \/ l1.node1 = l2.node2
    \/ l1.node2 = l2.node1 \/ l1.node2 = l2.node2

\* what the pair (i, j) of the scan pushes onto intersections: nothing or one entry
PairIntersection(ns, ls, i, j) ==
    LET n11 == FindNodeIndex(ns, ls[i].node1)
        n12 == FindNodeIndex(ns, ls[i].node2)
        n21 == FindNodeIndex(ns, ls[j].node1)
        n22 == FindNodeIndex(ns, ls[j].node2)
    IN IF n11 = 0 \/ n12 = 0 \/ n21 = 0 \/ n22 = 0 THEN <<>>
       ELSE IF SharesNode(ls[i], ls[j]) THEN <<>>
       ELSE LET at == LineLineIntersection(ns[n11], ns[n12], ns[n21], ns[n22])
            IN IF at.hit
               THEN <<[line1 |-> ls[i].name, line2 |-> ls[j].name,
                       x |-> RoundFraction(at.x, at.den),
                       y |-> RoundFraction(at.y, at.den),
                       z |-> RoundFraction(at.z, at.den)]>>
               ELSE <<>>

\* for i, for j > i: the intersections in the order the scan finds them
FindAllIntersections(ns, ls) ==
    Flatten([i \in 1..Len(ls) |->
               Flatten([k \in 1..(Len(ls) - i) |-> PairIntersection(ns, ls, i, i + k)])])

FindLineIndex(ls, name) ==
    LET hits == {i \in 1..Len(ls) : ls[i].name = name}
    IN IF hits = {} THEN 0 ELSE SetMin(hits)

\* the junction's name: `N${nodeCounter++}`, whatever names exist
JunctionName(nodeCounter) == "N" \o ToString(nodeCounter)

\* for (const intersection of intersections): split the two lines at a new node
RECURSIVE SplitAll(_, _, _, _)
SplitAll(ns, ls, found, nodeCounter) ==
    IF found = <<>> THEN ToolOutcome(TRUE, ns, ls)
    ELSE LET hit == Head(found)
             i1 == FindLineIndex(ls, hit.line1)
             i2 == FindLineIndex(ls, hit.line2)
         IN IF i1 = 0 \/ i2 = 0 THEN SplitAll(ns, ls, Tail(found), nodeCounter)
            ELSE LET newNodeName == JunctionName(nodeCounter)
                     line1 == ls[i1]
                     line2 == ls[i2]
                     kept == SelectSeq(ls, LAMBDA l : l.name # line1.name /\ l.name # line2.name)
                     pieces == <<[name |-> line1.name \o "a", node1 |-> line1.node1, node2 |-> newNodeName],
                                 [name |-> line1.name \o "b", node1 |-> newNodeName, node2 |-> line1.node2],
                                 [name |-> line2.name \o "a", node1 |-> line2.node1, node2 |-> newNodeName],
                                 [name |-> line2.name \o "b", node1 |-> newNodeName, node2 |-> line2.node2]>>
                 IN SplitAll(Append(ns, [name |-> newNodeName, x |-> hit.x, y |-> hit.y, z |-> hit.z]),
                             kept \o pieces, Tail(found), nodeCounter + 1)

ExecuteFixIntersections(ns, ls) ==
    IF Len(ls) < 2 THEN ToolOutcome(TRUE, ns, ls)
    ELSE SplitAll(ns, ls, FindAllIntersections(ns, ls), Len(ns) + 1)

----------------------------------------------------------------------------
(* Sessions and the validation tool call *)

\* The editor store as created: nodes: new Map(), lines: new Map(), and a history of
\* one empty state at historyIndex 0.  The display settings, the selection and the
\* project's name are not kept.
EmptyStore ==
    [nodes |-> <<>>, lines |-> <<>>,
     history |-> <<[nodes |-> <<>>, lines |-> <<>>]>>, historyIndex |-> 0]

\* The observer before any call on the store
NoStoreCall == [op |-> "none"]

Sessions == {"s1", "s2"}

Node(name, x, y, z) == [name |-> name, x |-> x, y |-> y, z |-> z]

HistoryKeys == {"default"} \cup Sessions

NoHistories == [k \in HistoryKeys |-> <<>>]

\* What the observers keep of one validation: the data returned (r), the structure
\* validated, and what the same call returns on the history the session has alone
LogEntry(ns, ls, r, alone) ==
    [valid |-> r.valid, triggered |-> r.circuitBreakerTriggered, count |-> r.count,
     signature |-> r.signature, nodes |-> ns, lines |-> ls,
     critical |-> CriticalErrors(r.errors), errors |-> r.errors,
     conflict |-> r.conflictingRequirements,
     aloneTriggered |-> alone.circuitBreakerTriggered, aloneCount |-> alone.count]

LastEntries(log, keep) ==
    IF Len(log) > keep THEN SubSeq(log, Len(log) - keep + 1, Len(log)) ELSE log

\* One validateStructure tool call of session s; the observer keeps the last
\* keep validations
ValidateCall(s, keep) ==
    LET key == HistoryKey(conversationId[s])
        r == ValidateStructure(nodes[s], lines[s], validationHistory[key])
        alone == ValidateStructure(nodes[s], lines[s], shadow[s])
    IN /\ validationHistory' = [validationHistory EXCEPT ![key] = r.stored]
       /\ valLog' = [valLog EXCEPT
                       ![s] = LastEntries(Append(@, LogEntry(nodes[s], lines[s], r, alone)), keep)]
       /\ shadow' = [shadow EXCEPT ![s] = alone.stored]
       /\ UNCHANGED <<nodes, lines, conversationId, asciiHistory, store, storeLog>>

\* An editing tool call of session s whose outcome is out
Edit(s, out) ==
    /\ nodes' = [nodes EXCEPT ![s] = out.nodes]
    /\ lines' = [lines EXCEPT ![s] = out.lines]
    /\ UNCHANGED <<conversationId, validationHistory, asciiHistory, valLog, shadow, store,
                 storeLog>>

InitSessions(start, cids) ==
    /\ nodes = start
    /\ lines = [s \in Sessions |-> <<>>]
    /\ conversationId = cids
    /\ validationHistory = NoHistories
    /\ asciiHistory = NoHistories
    /\ valLog = [s \in Sessions |-> <<>>]
    /\ shadow = [s \in Sessions |-> <<>>]
    /\ store = EmptyStore
    /\ storeLog = NoStoreCall
    /\ pc = "idle"

\* createCrafteaAgent builds the tool context as { state }: no conversationId
AgentContext == Undefined

----------------------------------------------------------------------------
(* Specification SpecBreaker: one agent session on a structure received    *)
(* with the request, edited by createLine, deleteLine and deleteNode and     *)
(* validated at most MaxCalls times.                                         *)

\* Two floor nodes 4 m apart and a deck node above the middle of the span
BridgeNodes == <<Node("N1", 0, 0, 0), Node("N2", 4000, 0, 0), Node("N3", 2000, 2000, 0)>>

\* The createLine inputs: a diagonal support of the deck node, the floor edge in
\* both directions, and a line from a node to itself.
BreakerPairs == {<<"N3", "N1">>, <<"N1", "N2">>, <<"N2", "N1">>, <<"N1", "N1">>}

InitBreaker ==
    InitSessions([s \in Sessions |-> IF s = "s1" THEN BridgeNodes ELSE <<>>],
                 [s \in Sessions |-> AgentContext])

BreakerCreateLine ==
    \E p \in BreakerPairs :
        /\ Edit("s1", ExecuteCreateLine(nodes["s1"], lines["s1"], p[1], p[2], Undefined))
        /\ UNCHANGED pc

BreakerDeleteLine ==
    \E l \in LineNames(lines["s1"]) \cup {"L9"} :
        /\ Edit("s1", ExecuteDeleteLine(nodes["s1"], lines["s1"], l))
        /\ UNCHANGED pc

BreakerDeleteNode ==
    \E n \in {"N3", "N9"} :
        /\ Edit("s1", ExecuteDeleteNode(nodes["s1"], lines["s1"], n))
        /\ UNCHANGED pc

BreakerValidate ==
    /\ Len(valLog["s1"]) < MaxCalls
    /\ ValidateCall("s1", MaxCalls)
    /\ UNCHANGED pc

NextBreaker == BreakerCreateLine \/ BreakerDeleteLine \/ BreakerDeleteNode \/ BreakerValidate

SpecBreaker == InitBreaker /\ [][NextBreaker]_vars

\* validations i..j of a log all fail with one signature
SameFailure(log, i, j) ==
    \A m \in i..j : ~log[m].valid /\ log[m].signature = log[i].signature

(* C1: in one session, the third of three consecutive failing validations   *)
(* with an identical issue signature (no valid one between) is triggered.   *)
ThirdRepeatTriggers ==
    \A k \in 3..Len(valLog["s1"]) :
        SameFailure(valLog["s1"], k - 2, k) => valLog["s1"][k].triggered

\* three same-signature failures on three different line sets: the count is exactly 3
ThirdRepeatWitness ==
    \E k \in 3..Len(valLog["s1"]) :
        /\ SameFailure(valLog["s1"], k - 2, k)
        /\ valLog["s1"][k].triggered
        /\ valLog["s1"][k].count = BreakerThreshold

HasCritical(entry, type, desc) ==
    \E i \in 1..Len(entry.critical) :
        entry.critical[i].type = type /\ entry.critical[i].desc = desc

HasIllogical(entry) ==
    \E i \in 1..Len(entry.critical) : entry.critical[i].type = "illogical_connection"

HasFloating(entry) ==
    HasCritical(entry, "missing_connection", "has no structural path to ground - floating structure")

(* C3: the bridge oscillation - validation 1 fails with the diagonal        *)
(* support present (illogical connection), validation 2 fails with it       *)
(* deleted (floating node), validation 3 fails with it recreated - has its  *)
(* third validation triggered.                                              *)
BridgeOscillationTriggers ==
    LET log == valLog["s1"]
    IN (/\ Len(log) >= 3
        /\ ~log[1].valid /\ ~log[2].valid /\ ~log[3].valid
        /\ log[1].lines # <<>> /\ HasIllogical(log[1])
        /\ log[2].lines = <<>> /\ HasFloating(log[2])
        /\ log[3].lines = log[1].lines
        /\ log[1].nodes = log[2].nodes /\ log[2].nodes = log[3].nodes)
       => log[3].triggered

(* C6: the same unchanged failing structure validated repeatedly in a fresh *)
(* session has repeatCount 1, then 2, neither triggered; the breaker first  *)
(* triggers on the third validation.                                        *)
UnchangedStructureCounts ==
    LET log == valLog["s1"]
        unchanged(k) == \A m \in 1..k : /\ ~log[m].valid
                                        /\ log[m].nodes = log[1].nodes
                                        /\ log[m].lines = log[1].lines
    IN /\ (Len(log) >= 1 /\ unchanged(1)) => (log[1].count = 1 /\ ~log[1].triggered)
       /\ (Len(log) >= 2 /\ unchanged(2)) => (log[2].count = 2 /\ ~log[2].triggered)
       /\ (Len(log) >= 3 /\ unchanged(3)) => log[3].triggered

(* C7 as stated: once a validation of the session is triggered, every later *)
(* failing validation is triggered too, until a valid one clears history.   *)
TriggeredIsTerminal ==
    LET log == valLog["s1"]
    IN \A i \in 1..Len(log) : \A j \in (i + 1)..Len(log) :
          (log[i].triggered /\ \A m \in (i + 1)..j : ~log[m].valid) => log[j].triggered

(* C7 amended: once a validation is triggered, every later failing          *)
(* validation is triggered as long as the issue signature stays the one of  *)
(* the triggered validation (no valid and no different failure between).    *)
TriggeredWhileSameSignature ==
    LET log == valLog["s1"]
    IN \A i \in 1..Len(log) : \A j \in (i + 1)..Len(log) :
          (log[i].triggered /\ SameFailure(log, i, j)) => log[j].triggered

TriggeredAgainWitness ==
    LET log == valLog["s1"]
    IN \E i \in 1..Len(log) : \E j \in (i + 1)..Len(log) :
          log[i].triggered /\ SameFailure(log, i, j) /\ log[j].triggered

----------------------------------------------------------------------------
(* Specification SpecClear: one agent session that can delete and create    *)
(* nodes, down to the empty structure and back.                             *)

FlatNodes == <<Node("N1", 0, 0, 0), Node("N2", 4000, 0, 0)>>

ClearPositions == {<<4000, 0, 0>>}

MaxClearNodes == 2

InitClear ==
    InitSessions([s \in Sessions |-> IF s = "s1" THEN FlatNodes ELSE <<>>],
                 [s \in Sessions |-> AgentContext])

ClearCreateNode ==
    /\ Len(nodes["s1"]) < MaxClearNodes
    /\ \E p \in ClearPositions :
          /\ Edit("s1", ExecuteCreateNode(nodes["s1"], lines["s1"], p[1], p[2], p[3], Undefined))
          /\ UNCHANGED pc

ClearCreateLine ==
    \E p \in {<<"N1", "N2">>, <<"N2", "N1">>} :
        /\ Edit("s1", ExecuteCreateLine(nodes["s1"], lines["s1"], p[1], p[2], Undefined))
        /\ UNCHANGED pc

ClearDeleteLine ==
    \E l \in LineNames(lines["s1"]) \cup {"L9"} :
        /\ Edit("s1", ExecuteDeleteLine(nodes["s1"], lines["s1"], l))
        /\ UNCHANGED pc

ClearDeleteNode ==
    \E n \in NodeNames(nodes["s1"]) \cup {"N9"} :
        /\ Edit("s1", ExecuteDeleteNode(nodes["s1"], lines["s1"], n))
        /\ UNCHANGED pc

ClearValidate ==
    /\ Len(valLog["s1"]) < MaxCalls
    /\ ValidateCall("s1", MaxCalls)
    /\ UNCHANGED pc

NextClear ==
    ClearCreateNode \/ ClearCreateLine \/ ClearDeleteLine \/ ClearDeleteNode \/ ClearValidate

SpecClear == InitClear /\ [][NextClear]_vars

(* C4: whenever a validation returns valid = true, the session's history    *)
(* record no longer exists when the call returns, whatever structure        *)
(* (including an empty one) produced it, so the next failing validation     *)
(* has repeatCount 1 and is not triggered.                                  *)
ValidClearsHistory ==
    LET log == valLog["s1"]
    IN /\ (Len(log) > 0 /\ log[Len(log)].valid)
            => validationHistory[HistoryKey(conversationId["s1"])] = <<>>
       /\ \A k \in 2..Len(log) :
            (log[k - 1].valid /\ ~log[k].valid) => (log[k].count = 1 /\ ~log[k].triggered)

----------------------------------------------------------------------------
(* Specification SpecOscillate: an automated caller of one agent session    *)
(* that keeps alternating between two line configurations - create the      *)
(* support, validate, delete it, validate, create it again - and stops      *)
(* only when a validation is valid or triggered. The caller always takes    *)
(* its next step (weak fairness), so the run is unbounded.                  *)

TowerNodes ==
    <<Node("N1", 0, 0, 0), Node("N2", 4000, 0, 0),
      Node("N3", 0, 2000, 0), Node("N4", 4000, 2000, 0)>>

OscInputs == {BridgeNodes, TowerNodes}

\* the name of the line between the support's endpoints, as the caller reads it
\* from the structure
SupportLine(ls, support) ==
    LET hits == {i \in 1..Len(ls) :
                   ls[i].node1 = support[1] /\ ls[i].node2 = support[2]}
    IN IF hits = {} THEN Undefined ELSE ls[SetMin(hits)].name

InitOscillate ==
    \E input \in OscInputs :
      \E a \in NodeNames(input) : \E b \in NodeNames(input) \ {a} :
        /\ nodes = [s \in Sessions |-> IF s = "s1" THEN input ELSE <<>>]
        /\ lines = [s \in Sessions |-> <<>>]
        /\ conversationId = [s \in Sessions |-> AgentContext]
        /\ validationHistory = NoHistories
        /\ asciiHistory = NoHistories
        /\ valLog = [s \in Sessions |-> <<>>]
        /\ shadow = [s \in Sessions |-> <<>>]
        /\ store = EmptyStore
        /\ storeLog = NoStoreCall
        /\ pc = [step |-> "add", support |-> <<a, b>>]

OscAdd ==
    /\ pc.step = "add"
    /\ Edit("s1", ExecuteCreateLine(nodes["s1"], lines["s1"],
                                    pc.support[1], pc.support[2], Undefined))
    /\ pc' = [pc EXCEPT !.step = "validateAdded"]

OscRemove ==
    /\ pc.step = "remove"
    /\ Edit("s1", ExecuteDeleteLine(nodes["s1"], lines["s1"],
                                    SupportLine(lines["s1"], pc.support)))
    /\ pc' = [pc EXCEPT !.step = "validateRemoved"]

OscValidate ==
    /\ pc.step \in {"validateAdded", "validateRemoved"}
    /\ ValidateCall("s1", 1)
    /\ LET r == valLog'["s1"][1]
       IN pc' = [pc EXCEPT !.step = IF r.valid \/ r.triggered THEN "stopped"
                                    ELSE IF pc.step = "validateAdded" THEN "remove"
                                    ELSE "add"]

NextOscillate == OscAdd \/ OscRemove \/ OscValidate

\* The caller takes its next step: every step of NextOscillate changes pc.step and
\* one is possible exactly while the caller has not stopped, so weak fairness of
\* the caller's steps is stated on pc.
OscProgress ==
    /\ pc.step # "stopped"
    /\ \E st \in {"add", "validateAdded", "remove", "validateRemoved", "stopped"} :
          pc' = [pc EXCEPT !.step = st]

SpecOscillate == InitOscillate /\ [][NextOscillate]_vars /\ WF_pc(OscProgress)

(* C2: in an unbounded run of one session in which every validation fails   *)
(* and the caller keeps alternating between the same two line               *)
(* configurations, some validation eventually returns triggered (or the     *)
(* run leaves the claim's case because a validation is valid).              *)
OscillationEventuallyTrips ==
    <>(\E i \in 1..Len(valLog["s1"]) : valLog["s1"][i].triggered \/ valLog["s1"][i].valid)

----------------------------------------------------------------------------
(* Specification SpecSessions: two conversations, each with its own         *)
(* structure, whose tool calls interleave. Either both were created by      *)
(* createCrafteaAgent, or both call the tool with a context that carries    *)
(* their own conversation id.                                               *)

MaxSessionCalls == 2

SessionPairs == {<<"N3", "N1">>}

InitTwoSessions ==
    \E cids \in {[s \in Sessions |-> AgentContext], [s \in Sessions |-> s]} :
        InitSessions([s \in Sessions |-> BridgeNodes], cids)

SessCreateLine(s) ==
    \E p \in SessionPairs :
        /\ Edit(s, ExecuteCreateLine(nodes[s], lines[s], p[1], p[2], Undefined))
        /\ UNCHANGED pc

SessDeleteLine(s) ==
    \E l \in LineNames(lines[s]) :
        /\ Edit(s, ExecuteDeleteLine(nodes[s], lines[s], l))
        /\ UNCHANGED pc

SessValidate(s) ==
    /\ Len(valLog[s]) < MaxSessionCalls
    /\ ValidateCall(s, MaxSessionCalls)
    /\ UNCHANGED pc

NextSessions ==
    \E s \in Sessions : SessCreateLine(s) \/ SessDeleteLine(s) \/ SessValidate(s)

SpecSessions == InitTwoSessions /\ [][NextSessions]_vars

(* C5: validations of two different sessions never read or update the same  *)
(* history record - the two sessions use different keys, and the            *)
(* repeatCount and triggered outcome every validation observes are the      *)
(* ones it would observe had the other session never validated - also       *)
(* when the sessions are created through createCrafteaAgent.                *)
SessionsIsolated ==
    /\ (valLog["s1"] # <<>> /\ valLog["s2"] # <<>>)
          => HistoryKey(conversationId["s1"]) # HistoryKey(conversationId["s2"])
    /\ \A s \in Sessions : \A k \in 1..Len(valLog[s]) :
          /\ valLog[s][k].count = valLog[s][k].aloneCount
          /\ valLog[s][k].triggered = valLog[s][k].aloneTriggered

----------------------------------------------------------------------------
(* Specification SpecTools: one agent session that starts from the empty    *)
(* structure, calls createNode, createLine, deleteNode, deleteLine,         *)
(* moveNode and fixIntersections in any order, at most MaxToolCalls times,  *)
(* and may then validate the structure it has built.  pc counts the         *)
(* editing calls made.                                                      *)

MaxToolNodes == 4

MaxToolLines == 2

MaxToolCalls == 9

\* the corners of an upright 2 m square, the ends of one diagonal first
Corners == <<<<0, 0, 0>>, <<2000, 2000, 0>>, <<2000, 0, 0>>, <<0, 2000, 0>>>>

\* the caller places a new node on the corner that follows the nodes already there
NextCorner(ns) == Corners[(Len(ns) % Len(Corners)) + 1]

\* where moveNode lifts a node to
Raised == <<1000, 2000, 0>>

\* the names createNode is asked for: none (auto-generated) or a name of the caller
RequestedNames == {Undefined, "N5"}

InitTools ==
    /\ nodes = [s \in Sessions |-> <<>>]
    /\ lines = [s \in Sessions |-> <<>>]
    /\ conversationId = [s \in Sessions |-> AgentContext]
    /\ validationHistory = NoHistories
    /\ asciiHistory = NoHistories
    /\ valLog = [s \in Sessions |-> <<>>]
    /\ shadow = [s \in Sessions |-> <<>>]
    /\ store = EmptyStore
    /\ storeLog = NoStoreCall
    /\ pc = 0

\* one more tool call of the caller, who makes at most MaxToolCalls of them
ToolCall(out) ==
    /\ pc < MaxToolCalls
    /\ valLog["s1"] = <<>>
    /\ Edit("s1", out)
    /\ pc' = pc + 1

ToolCreateNode ==
    /\ Len(nodes["s1"]) < MaxToolNodes
    /\ \E p \in {NextCorner(nodes["s1"])} : \E name \in RequestedNames :
          ToolCall(ExecuteCreateNode(nodes["s1"], lines["s1"], p[1], p[2], p[3], name))

ToolCreateLine ==
    /\ Len(lines["s1"]) < MaxToolLines
    /\ \E a \in NodeNames(nodes["s1"]) : \E b \in NodeNames(nodes["s1"]) :
          ToolCall(ExecuteCreateLine(nodes["s1"], lines["s1"], a, b, Undefined))

ToolDeleteNode ==
    \E n \in NodeNames(nodes["s1"]) :
        ToolCall(ExecuteDeleteNode(nodes["s1"], lines["s1"], n))

ToolDeleteLine ==
    \E l \in LineNames(lines["s1"]) :
        ToolCall(ExecuteDeleteLine(nodes["s1"], lines["s1"], l))

ToolMoveNode ==
    \E n \in NodeNames(nodes["s1"]) :
        ToolCall(ExecuteMoveNode(nodes["s1"], lines["s1"], n, Raised[1], Raised[2], Raised[3]))

ToolFixIntersections ==
    ToolCall(ExecuteFixIntersections(nodes["s1"], lines["s1"]))

\* the caller's last call: validateStructure on what it has built
ToolValidate ==
    /\ valLog["s1"] = <<>>
    /\ ValidateCall("s1", 1)
    /\ UNCHANGED pc

NextTools ==
    \/ ToolCreateNode \/ ToolCreateLine \/ ToolDeleteNode \/ ToolDeleteLine
    \/ ToolMoveNode \/ ToolFixIntersections \/ ToolValidate

SpecTools == InitTools /\ [][NextTools]_vars

(* C9: in every state reachable from the empty structure by createNode,     *)
(* createLine, deleteNode, deleteLine, moveNode and fixIntersections calls, *)
(* no two nodes have the same name and no two lines have the same name.     *)
NamesUnique ==
    /\ \A i, j \in 1..Len(nodes["s1"]) : nodes["s1"][i].name = nodes["s1"][j].name => i = j
    /\ \A i, j \in 1..Len(lines["s1"]) : lines["s1"][i].name = lines["s1"][j].name => i = j

(* C10: in every such state every line has node1 different from node2 and   *)
(* each of its endpoint names is the name of exactly one existing node.     *)
LinesWellFormed ==
    \A i \in 1..Len(lines["s1"]) :
        /\ lines["s1"][i].node1 # lines["s1"][i].node2
        /\ Cardinality({k \in 1..Len(nodes["s1"]) : nodes["s1"][k].name = lines["s1"][i].node1}) = 1
        /\ Cardinality({k \in 1..Len(nodes["s1"]) : nodes["s1"][k].name = lines["s1"][i].node2}) = 1

\* nodes i and j are joined when a line runs between their names
Joined(ns, ls, i, j) ==
    \E k \in 1..Len(ls) :
        \/ ls[k].node1 = ns[i].name /\ ls[k].node2 = ns[j].name
        \/ ls[k].node2 = ns[i].name /\ ls[k].node1 = ns[j].name

\* the nodes (by index) that some path of lines joins to a node of S
RECURSIVE JoinedTo(_, _, _)
JoinedTo(ns, ls, S) ==
    LET more == S \cup {j \in 1..Len(ns) : \E i \in S : Joined(ns, ls, i, j)}
    IN IF more = S THEN S ELSE JoinedTo(ns, ls, more)

\* the names, in node order, of the nodes from which no floor-tier node is reachable
UnreachableFromFloor(ns, ls) ==
    LET grounded == JoinedTo(ns, ls, {i \in 1..Len(ns) : IsFloor(ns[i], ns)})
        RECURSIVE Pick(_)
        Pick(i) == IF i > Len(ns) THEN <<>>
                   ELSE (IF i \in grounded THEN <<>> ELSE <<ns[i].name>>) \o Pick(i + 1)
    IN Pick(1)

\* the names of the floating issues of a validation, in report order
ReportedFloating(entry) ==
    LET floating == SelectSeq(entry.critical,
                        LAMBDA e : e.desc = "has no structural path to ground - floating structure")
    IN [i \in 1..Len(floating) |-> floating[i].affectedNodes[1]]

(* C8: the nodes a validation reports as floating are exactly the nodes     *)
(* from which no floor-tier node can be reached along any path of lines,    *)
(* each reported once; a structure whose nodes all reach a floor node       *)
(* reports no floating issue.                                               *)
FloatingExact ==
    \A k \in 1..Len(valLog["s1"]) :
        ReportedFloating(valLog["s1"][k])
            = UnreachableFromFloor(valLog["s1"][k].nodes, valLog["s1"][k].lines)

----------------------------------------------------------------------------
(* The editor store and its intersection resolver.  A Map is kept as the    *)
(* sequence of its values in insertion order, keyed by the value's name; a  *)
(* Line3D holds its two Node3D objects, not their names.                    *)

Line3D(name, node1, node2) == [name |-> name, node1 |-> node1, node2 |-> node2]

MapHas(map, name) == \E i \in 1..Len(map) : map[i].name = name

MapGet(map, name) == map[CHOOSE i \in 1..Len(map) : map[i].name = name]

\* Map.set: an existing key keeps its place and takes the new value
MapSet(map, value) ==
    IF MapHas(map, value.name)
    THEN [i \in 1..Len(map) |-> IF map[i].name = value.name THEN value ELSE map[i]]
    ELSE Append(map, value)

MapDelete(map, name) == SelectSeq(map, LAMBDA v : v.name # name)

MapNames(map) == {map[i].name : i \in 1..Len(map)}

NoCrossing == [hit |-> FALSE, x |-> 0, y |-> 0, z |-> 0]

\* the average of p_at_t and q_at_s, each coordinate rounded to 3 decimals
AveragePoint(p1, q1, d1full, d2full, sol) ==
    [hit |-> TRUE,
     x |-> RoundFraction((p1.x + q1.x) * sol.denom + sol.tn * d1full.x + sol.sn * d2full.x,
                         2 * sol.denom),
     y |-> RoundFraction((p1.y + q1.y) * sol.denom + sol.tn * d1full.y + sol.sn * d2full.y,
                         2 * sol.denom),
     z |-> RoundFraction((p1.z + q1.z) * sol.denom + sol.tn * d1full.z + sol.sn * d2full.z,
                         2 * sol.denom)]

\* checkLineIntersection makes the checks of lineLineIntersection, with the same
\* thresholds, and returns the rounded average of the two closest points
CheckReduced(p1, q1, d1full, d2full, wfull, unit) ==
    IF Reduced(p1, d1full, d2full, wfull, unit).hit
    THEN AveragePoint(p1, q1, d1full, d2full,
                      Solve(Shrink(d1full, unit), Shrink(d2full, unit), Shrink(wfull, unit)))
    ELSE NoCrossing

CheckLineIntersection(line1, line2) ==
    CheckReduced(line1.node1, line2.node1,
                 Vec(line1.node1, line1.node2), Vec(line2.node1, line2.node2),
                 Vec(line2.node1, line1.node1),
                 CommonUnit(Vec(line1.node1, line1.node2), Vec(line2.node1, line2.node2),
                            Vec(line2.node1, line1.node1)))

\* a variant that compares the Node3D objects the lines hold
SharesNodeObject(newLine, existingLine) ==
    \/ newLine.node1 = existingLine.node1
    \/ newLine.node1 = existingLine.node2
    \/ newLine.node2 = existingLine.node1
    \/ newLine.node2 = existingLine.node2

\* "Skip if lines share a node": the endpoints are compared by name
SharesNodeName(newLine, existingLine) ==
    \/ newLine.node1.name = existingLine.node1.name
    \/ newLine.node1.name = existingLine.node2.name
    \/ newLine.node2.name = existingLine.node1.name
    \/ newLine.node2.name = existingLine.node2.name

\* what one existing line adds to the intersections: nothing or one entry
CrossingWith(newLine, existingLine) ==
    IF SharesNodeName(newLine, existingLine) THEN <<>>
    ELSE IF CheckLineIntersection(newLine, existingLine).hit
    THEN <<[existingLine |-> existingLine,
            point |-> CheckLineIntersection(newLine, existingLine)]>>
    ELSE <<>>

\* the intersections of newLine with the existing lines, in the Map's order
FindIntersections(newLine, existingLines) ==
    Flatten([i \in 1..Len(existingLines) |-> CrossingWith(newLine, existingLines[i])])

\* a variant that takes the first candidate counter without looking it up
GenerateNodeNameUnchecked(existingNodes) == "N" \o ToString(Len(existingNodes) + 1)

\* counter = size + 1; while (existingNodes.has(`N${counter}`)) counter++
GenerateNodeName(existingNodes) ==
    "N" \o ToString(SetMin({k \in (Len(existingNodes) + 1)..(2 * Len(existingNodes) + 1) :
                               ~MapHas(existingNodes, "N" \o ToString(k))}))

\* if the Map still holds a line called name: delete it and set its two pieces
SplitAt(lns, name, newNode) ==
    IF ~MapHas(lns, name) THEN lns
    ELSE MapSet(MapSet(MapDelete(lns, name),
                       Line3D(name \o "a", MapGet(lns, name).node1, newNode)),
                Line3D(name \o "b", newNode, MapGet(lns, name).node2))

JunctionAt(nds, point) == Node(GenerateNodeName(nds), point.x, point.y, point.z)

\* for (const { existingLine, point } of intersections): a node at the point, the
\* new line split there, then the existing line split there
RECURSIVE SplitEach(_, _, _, _)
SplitEach(newLine, nds, lns, found) ==
    IF found = <<>> THEN [failed |-> FALSE, nodes |-> nds, lines |-> lns]
    ELSE SplitEach(newLine,
                   MapSet(nds, JunctionAt(nds, Head(found).point)),
                   SplitAt(SplitAt(lns, newLine.name, JunctionAt(nds, Head(found).point)),
                           Head(found).existingLine.name, JunctionAt(nds, Head(found).point)),
                   Tail(found))

AutoFixIntersections(newLine, existingNodes, existingLines) ==
    IF FindIntersections(newLine, existingLines) = <<>>
    THEN [failed |-> FALSE, nodes |-> existingNodes, lines |-> MapSet(existingLines, newLine)]
    ELSE SplitEach(newLine, existingNodes, MapSet(existingLines, newLine),
                   FindIntersections(newLine, existingLines))

\* what autoFixIntersections returns when its try block catches an error: null
DetectionFailed == [failed |-> TRUE]

\* a variant of the store's addLine whose fallback leaves the lines as they were
AddLineDropping(st, line, result) ==
    IF ~result.failed
    THEN [st EXCEPT !.nodes = result.nodes, !.lines = result.lines]
    ELSE st

\* addLine of the store, given what autoFixIntersections returned
AddLine(st, line, result) ==
    IF ~result.failed
    THEN [st EXCEPT !.nodes = result.nodes, !.lines = result.lines]
    ELSE [st EXCEPT !.lines = MapSet(st.lines, line)]

\* addNode: the node takes the place of a node of the same name; the lines that hold
\* the replaced Node3D object keep it
AddNode(st, node) == [st EXCEPT !.nodes = MapSet(st.nodes, node)]

RemoveNode(st, name) ==
    [st EXCEPT !.nodes = MapDelete(st.nodes, name),
               !.lines = SelectSeq(st.lines,
                                   LAMBDA l : l.node1.name # name /\ l.node2.name # name)]

RemoveLine(st, name) == [st EXCEPT !.lines = MapDelete(st.lines, name)]

\* the editor's name for a new line: the first L<counter> the store does not hold
NextLineName(lns) == LowestUnused("L", MapNames(lns))

\* the editor's name for a node entered as N[x,y,z]: the first unused N<counter>;
\* a node entered with its name keeps it
NodeNameFor(nds, name) == IF name = "N" THEN LowestUnused("N", MapNames(nds)) ELSE name

----------------------------------------------------------------------------
(* Specification SpecEditor: a user of the editor draws and deletes lines   *)
(* between the nodes of a plan in the XY plane, enters nodes and deletes    *)
(* nodes, in at most MaxEditorCalls calls on the store.                      *)

MaxEditorCalls == 4

\* Two crossing diagonals of a 4 m square and a shorter cut of its corner
PlanPoints == <<<<0, 0, 0>>, <<4000, 4000, 0>>, <<0, 4000, 0>>, <<4000, 0, 0>>,
                <<0, 2000, 0>>, <<2000, 0, 0>>>>

PlanNames == {<<"N1", "N2", "N3", "N4", "N5", "N6">>,
              <<"N1", "N2", "N3", "N4", "A", "N7">>}

PlanNodes(names) ==
    [i \in 1..Len(PlanPoints) |->
        Node(names[i], PlanPoints[i][1], PlanPoints[i][2], PlanPoints[i][3])]

InitEditor ==
    \E names \in PlanNames :
        /\ nodes = [s \in Sessions |-> <<>>]
        /\ lines = [s \in Sessions |-> <<>>]
        /\ conversationId = [s \in Sessions |-> AgentContext]
        /\ validationHistory = NoHistories
        /\ asciiHistory = NoHistories
        /\ valLog = [s \in Sessions |-> <<>>]
        /\ shadow = [s \in Sessions |-> <<>>]
        /\ store = [EmptyStore EXCEPT !.nodes = PlanNodes(names)]
        /\ storeLog = NoStoreCall
        /\ pc = 0

\* one more call on the store, which leaves the agent sessions alone
EditorCall(after, log) ==
    /\ pc < MaxEditorCalls
    /\ store' = after
    /\ storeLog' = log
    /\ pc' = pc + 1
    /\ UNCHANGED <<nodes, lines, conversationId, validationHistory, asciiHistory, valLog,
                     shadow>>

AddLineLog(line, result) ==
    [op |-> "addLine", before |-> store, line |-> line, failed |-> result.failed,
     found |-> FindIntersections(line, store.lines)]

\* the segments the user draws, as pairs of places in PlanPoints: the two
\* diagonals (one also drawn backwards), the corner cut, and two sides
PlanSegments == {<<1, 2>>, <<3, 4>>, <<4, 3>>, <<5, 6>>, <<1, 3>>, <<1, 4>>}

IsAt(node, point) == node.x = point[1] /\ node.y = point[2] /\ node.z = point[3]

\* the user draws a line between two nodes of the store; the detection either
\* returns its result or fails with an error caught inside autoFixIntersections
NodesAt(point) == {i \in 1..Len(store.nodes) : IsAt(store.nodes[i], point)}

EditorAddLine ==
    \E seg \in PlanSegments :
      \E i \in NodesAt(PlanPoints[seg[1]]) : \E j \in NodesAt(PlanPoints[seg[2]]) :
        \E result \in {AutoFixIntersections(
                          Line3D(NextLineName(store.lines), store.nodes[i], store.nodes[j]),
                          store.nodes, store.lines),
                       DetectionFailed} :
          EditorCall(AddLine(store, Line3D(NextLineName(store.lines),
                                           store.nodes[i], store.nodes[j]), result),
                     AddLineLog(Line3D(NextLineName(store.lines),
                                       store.nodes[i], store.nodes[j]), result))

\* the names the user gives to a node entered at the first plan point: none, or
\* the name of the node at the third
EnteredNames == {"N", "N3"}

EditorAddNode ==
    \E name \in EnteredNames :
        EditorCall(AddNode(store, Node(NodeNameFor(store.nodes, name), PlanPoints[1][1],
                                       PlanPoints[1][2], PlanPoints[1][3])),
                   [op |-> "addNode"])

EditorRemoveLine ==
    \E name \in MapNames(store.lines) :
        EditorCall(RemoveLine(store, name), [op |-> "removeLine"])

EditorRemoveNode ==
    \E name \in MapNames(store.nodes) :
        EditorCall(RemoveNode(store, name), [op |-> "removeNode"])

NextEditor == EditorAddLine \/ EditorAddNode \/ EditorRemoveLine \/ EditorRemoveNode

SpecEditor == InitEditor /\ [][NextEditor]_vars

\* the last call on the store was an addLine whose detection returned a result
Resolved == storeLog.op = "addLine" /\ ~storeLog.failed

\* the nodes the store holds beyond those it held before the last call
JunctionNodes == SubSeq(store.nodes, Len(storeLog.before.nodes) + 1, Len(store.nodes))

\* C11: every junction node the resolver creates gets a name that no node of the
\* structure has, the junctions created earlier in the same pass included, also when
\* the names of the structure have gaps or are not of the form N<k>: after a resolved
\* addLine the store holds the nodes it held before, unchanged and in place, followed
\* by one node per intersection found, and the names of these junctions are distinct
\* from the earlier names and from one another.
JunctionNamesFresh ==
    Resolved =>
        /\ Len(store.nodes) = Len(storeLog.before.nodes) + Len(storeLog.found)
        /\ SubSeq(store.nodes, 1, Len(storeLog.before.nodes)) = storeLog.before.nodes
        /\ MapNames(JunctionNodes) \cap MapNames(storeLog.before.nodes) = {}
        /\ Cardinality(MapNames(JunctionNodes)) = Len(storeLog.found)

\* two junctions created in one pass in a structure that holds a node called A and
\* the name N7, which is the first counter the resolver tries
JunctionNamesWitness ==
    /\ Resolved
    /\ Len(storeLog.found) = 2
    /\ {"A", "N7"} \subseteq MapNames(storeLog.before.nodes)
    /\ MapNames(JunctionNodes) = {"N8", "N9"}

\* the lines of the store of which the node called name is an endpoint
LinesAt(name) ==
    {i \in 1..Len(store.lines) :
        store.lines[i].node1.name = name \/ store.lines[i].node2.name = name}

FoundPoints == {storeLog.found[i].point : i \in 1..Len(storeLog.found)}

\* the nodes reached from the node called start along lines whose name begins with
\* the candidate's name followed by a letter (the pieces of the candidate)
IsPieceOf(lineName, candidate) ==
    /\ Len(lineName) > Len(candidate)
    /\ SubSeq(lineName, 1, Len(candidate)) = candidate

PieceLines == {i \in 1..Len(store.lines) : IsPieceOf(store.lines[i].name, storeLog.line.name)}

RECURSIVE AlongPieces(_)
AlongPieces(reached) ==
    LET more == {store.lines[i].node2.name : i \in {k \in PieceLines : store.lines[k].node1.name \in reached}}
                \cup {store.lines[i].node1.name : i \in {k \in PieceLines : store.lines[k].node2.name \in reached}}
    IN IF more \subseteq reached THEN reached ELSE AlongPieces(reached \cup more)

\* C12: a candidate line that crosses k >= 2 existing lines at distinct interior
\* points is split at every one of the k junctions, as is the line it crosses there:
\* the result has k new junction nodes, each junction is an endpoint of four lines
\* (two pieces of the candidate and two pieces of its existing line), and the pieces of
\* the candidate join its two original endpoints through all the junctions.
CandidateSplitAtEveryJunction ==
    (Resolved /\ Len(storeLog.found) >= 2 /\ Cardinality(FoundPoints) = Len(storeLog.found)) =>
        /\ Len(JunctionNodes) = Len(storeLog.found)
        /\ \A j \in 1..Len(JunctionNodes) : Cardinality(LinesAt(JunctionNodes[j].name)) = 4
        /\ MapNames(JunctionNodes) \cup {storeLog.line.node2.name}
               \subseteq AlongPieces({storeLog.line.node1.name})

\* the lines the store holds now and did not hold before the last call
NewLines == {l \in Range(store.lines) : l \notin Range(storeLog.before.lines)}

\* the endpoints of the candidate and of the one line it crosses
OriginalEndpoints ==
    {storeLog.line.node1, storeLog.line.node2,
     storeLog.found[1].existingLine.node1, storeLog.found[1].existingLine.node2}

\* C13: a candidate line that crosses exactly one existing line at an interior point
\* leaves the store with exactly one more node, placed at the intersection point, with
\* neither of the two original lines, and with exactly four new lines, each joining
\* the junction to one of the four original endpoints.
SingleCrossingSplit ==
    (Resolved /\ Len(storeLog.found) = 1) =>
        /\ Len(store.nodes) = Len(storeLog.before.nodes) + 1
        /\ SubSeq(store.nodes, 1, Len(storeLog.before.nodes)) = storeLog.before.nodes
        /\ IsAt(store.nodes[Len(store.nodes)],
                <<storeLog.found[1].point.x, storeLog.found[1].point.y,
                  storeLog.found[1].point.z>>)
        /\ storeLog.line \notin Range(store.lines)
        /\ storeLog.found[1].existingLine \notin Range(store.lines)
        /\ Cardinality(NewLines) = 4
        /\ {{l.node1, l.node2} : l \in NewLines}
               = {{store.nodes[Len(store.nodes)], e} : e \in OriginalEndpoints}

\* the last call on the store was an addLine whose detection failed
Unresolved == storeLog.op = "addLine" /\ storeLog.failed

SharingLines ==
    {l \in Range(storeLog.before.lines) :
        {l.node1.name, l.node2.name}
            \cap {storeLog.line.node1.name, storeLog.line.node2.name} # {}}

\* the line called name was split at the junction: its two pieces end there
SplitAtJunction(name, junction) ==
    /\ MapHas(store.lines, name \o "a")
    /\ MapHas(store.lines, name \o "b")
    /\ MapGet(store.lines, name \o "a").node2 = junction
    /\ MapGet(store.lines, name \o "b").node1 = junction

----------------------------------------------------------------------------
(* Specification SpecScenes: one agent session on one of two structures     *)
(* received with the request - a connected rectangular floor with an         *)
(* isolated node above it, and the bridge of the circuit breaker's test     *)
(* case (four wall-top nodes, a top node and a bottom node) - edited by      *)
(* createLine and deleteLine and validated at most MaxSceneCalls times.      *)

MaxSceneCalls == 3

Line(name, node1, node2) == [name |-> name, node1 |-> node1, node2 |-> node2]

IsolatedNodes ==
    <<Node("N1", 0, 0, 0), Node("N2", 4000, 0, 0), Node("N3", 4000, 0, 3000),
      Node("N4", 0, 0, 3000), Node("N5", 10000, 10000, 10000)>>

IsolatedLines ==
    <<Line("L1", "N1", "N2"), Line("L2", "N2", "N3"), Line("L3", "N3", "N4"),
      Line("L4", "N4", "N1")>>

BridgeSceneNodes ==
    <<Node("N1", 0, 2000, 0), Node("N2", 4000, 2000, 0), Node("N3", 0, 2000, 2000),
      Node("N4", 4000, 2000, 2000), Node("N5", 2000, 3000, 1000),
      Node("N6", 2000, 0, 1000)>>

BridgeSceneLines == <<Line("L1", "N1", "N2"), Line("L2", "N3", "N4")>>

Scenes == {[nodes |-> IsolatedNodes, lines |-> IsolatedLines],
           [nodes |-> BridgeSceneNodes, lines |-> BridgeSceneLines]}

\* the lines the agent creates and deletes: from the top node to a corner, and the
\* diagonal support from the bottom node to a wall-top corner
ScenePairs == {<<"N5", "N1">>, <<"N6", "N3">>}

CreatedLineNames(ls) ==
    {ls[i].name : i \in {k \in 1..Len(ls) : <<ls[k].node1, ls[k].node2>> \in ScenePairs}}

InitScenes ==
    \E scene \in Scenes :
        /\ nodes = [s \in Sessions |-> IF s = "s1" THEN scene.nodes ELSE <<>>]
        /\ lines = [s \in Sessions |-> IF s = "s1" THEN scene.lines ELSE <<>>]
        /\ conversationId = [s \in Sessions |-> AgentContext]
        /\ validationHistory = NoHistories
        /\ asciiHistory = NoHistories
        /\ valLog = [s \in Sessions |-> <<>>]
        /\ shadow = [s \in Sessions |-> <<>>]
        /\ store = EmptyStore
        /\ storeLog = NoStoreCall
        /\ pc = "idle"

SceneCreateLine ==
    \E p \in ScenePairs :
        /\ Edit("s1", ExecuteCreateLine(nodes["s1"], lines["s1"], p[1], p[2], Undefined))
        /\ UNCHANGED pc

SceneDeleteLine ==
    \E l \in CreatedLineNames(lines["s1"]) :
        /\ Edit("s1", ExecuteDeleteLine(nodes["s1"], lines["s1"], l))
        /\ UNCHANGED pc

SceneValidate ==
    /\ Len(valLog["s1"]) < MaxSceneCalls
    /\ ValidateCall("s1", MaxSceneCalls)
    /\ UNCHANGED pc

NextScenes == SceneCreateLine \/ SceneDeleteLine \/ SceneValidate

SpecScenes == InitScenes /\ [][NextScenes]_vars

\* the missing_connection issues of a validation, as places in its list of issues
MissingConnections(entry) ==
    {i \in 1..Len(entry.errors) : entry.errors[i].type = "missing_connection"}

\* C14: for the connected 4-corner floor (0,0,0), (4,0,0), (4,0,3), (0,0,3) with no
\* wall or roof tier plus the isolated node N5 at (10,10,10), the validation reports
\* exactly one missing_connection issue, and that issue names N5 as floating.
IsolatedNodeOneIssue ==
    \A k \in 1..Len(valLog["s1"]) :
        (valLog["s1"][k].nodes = IsolatedNodes /\ valLog["s1"][k].lines = IsolatedLines) =>
            /\ Cardinality(MissingConnections(valLog["s1"][k])) = 1
            /\ \A i \in MissingConnections(valLog["s1"][k]) :
                  /\ Includes(valLog["s1"][k].errors[i].desc, "floating")
                  /\ valLog["s1"][k].errors[i].affectedNodes = <<"N5">>

\* C16: whenever a triggered decision is returned, conflictingRequirements is true
\* if and only if the critical issues of that report hold a floating issue (no
\* structural path to ground) and an illogical_connection issue for a non-vertical
\* diagonal line, whether the diagonal joins floor to roof or floor to mid tier.
ConflictIffFloatingAndDiagonal ==
    \A k \in 1..Len(valLog["s1"]) :
        valLog["s1"][k].triggered =>
            (valLog["s1"][k].conflict
                <=> (HasFloating(valLog["s1"][k]) /\ HasIllogical(valLog["s1"][k])))

\* line i of a validated structure joins a floor-tier node and a roof-tier node whose
\* X or Z differ by at least 0.1
IsFloorRoofDiagonal(entry, i) ==
    LET a == FindNodeIndex(entry.nodes, entry.lines[i].node1)
        b == FindNodeIndex(entry.nodes, entry.lines[i].node2)
    IN /\ a # 0 /\ b # 0
       /\ \/ IsFloor(entry.nodes[a], entry.nodes) /\ IsRoof(entry.nodes[b], entry.nodes)
          \/ IsRoof(entry.nodes[a], entry.nodes) /\ IsFloor(entry.nodes[b], entry.nodes)
       /\ \/ Abs(entry.nodes[a].x - entry.nodes[b].x) >= LevelTolerance
          \/ Abs(entry.nodes[a].z - entry.nodes[b].z) >= LevelTolerance

\* the validation reports a critical illogical_connection issue that names the line
ReportedIllogical(entry, name) ==
    \E j \in 1..Len(entry.errors) :
        /\ entry.errors[j].type = "illogical_connection"
        /\ entry.errors[j].severity = "critical"
        /\ name \in Range(entry.errors[j].affectedLines)

\* C15: for every structure that holds a non-vertical line joining a floor-tier node
\* and a roof-tier node, the validation reports at least one illogical_connection
\* issue of critical severity naming that line.
FloorRoofDiagonalReported ==
    \A k \in 1..Len(valLog["s1"]) : \A i \in 1..Len(valLog["s1"][k].lines) :
        IsFloorRoofDiagonal(valLog["s1"][k], i) =>
            ReportedIllogical(valLog["s1"][k], valLog["s1"][k].lines[i].name)

\* a validated structure with a roof tier above its floor tier and a diagonal from
\* the one to the other, reported
FloorRoofDiagonalWitness ==
    \E k \in 1..Len(valLog["s1"]) : \E i \in 1..Len(valLog["s1"][k].lines) :
        /\ IsFloorRoofDiagonal(valLog["s1"][k], i)
        /\ MaxY(valLog["s1"][k].nodes) > MinY(valLog["s1"][k].nodes)
        /\ ReportedIllogical(valLog["s1"][k], valLog["s1"][k].lines[i].name)

\* C17: on a failing validation whose signature equals the session's previous
\* signature and whose line set already occurs in the session's rolling window,
\* repeatCount becomes the previous repeatCount plus exactly 2.
OscillationAddsTwo ==
    \A k \in 2..Len(valLog["s1"]) :
        (/\ SameFailure(valLog["s1"], k - 1, k)
         /\ \E m \in 1..(k - 1) :
               /\ SameFailure(valLog["s1"], m, k)
               /\ CurrentLines(valLog["s1"][m].lines) = CurrentLines(valLog["s1"][k].lines))
        => valLog["s1"][k].count = valLog["s1"][k - 1].count + OscillationBoost

----------------------------------------------------------------------------
(* Loading a saved project into the editor, and sending the editor's        *)
(* structure to the agent.                                                   *)

\* new Map(entries): a later entry of the same name takes the place of the earlier
RECURSIVE MapFrom(_)
MapFrom(values) ==
    IF values = <<>> THEN <<>>
    ELSE MapSet(MapFrom(SubSeq(values, 1, Len(values) - 1)), values[Len(values)])

\* the lines of importFromJSON: a line is built when both its names are in nodeMap
ImportedLine(nodeMap, lineData) ==
    IF MapHas(nodeMap, lineData.node1) /\ MapHas(nodeMap, lineData.node2)
    THEN <<Line3D(lineData.name, MapGet(nodeMap, lineData.node1),
                  MapGet(nodeMap, lineData.node2))>>
    ELSE <<>>

\* importFromJSON on the parsed file: the nodes and lines it resolves
ImportFromJSON(data) ==
    [nodes |-> data.nodes,
     lines |-> Flatten([i \in 1..Len(data.lines) |->
                           ImportedLine(MapFrom(data.nodes), data.lines[i])])]

\* loadProject: the loaded structure replaces the store's and is pushed on the
\* history after the current index
LoadProject(st, loadedNodes, loadedLines) ==
    [nodes |-> MapFrom(loadedNodes), lines |-> MapFrom(loadedLines),
     history |-> Append(SubSeq(st.history, 1, st.historyIndex + 1),
                        [nodes |-> MapFrom(loadedNodes), lines |-> MapFrom(loadedLines)]),
     historyIndex |-> st.historyIndex + 1]

\* handleFileLoad: a file that cannot be read as a project raises inside
\* importFromJSON and leaves the store as it is; any other file is loaded
HandleFileLoad(st, file) ==
    IF ~file.readable THEN [outcome |-> "error", store |-> st]
    ELSE [outcome |-> "loaded",
          store |-> LoadProject(st, ImportFromJSON(file).nodes, ImportFromJSON(file).lines)]

\* the state handleAIRequest sends to the agent: the store's nodes, and its lines
\* with the names of the Node3D objects they hold
StateOf(st) ==
    [nodes |-> st.nodes,
     lines |-> [i \in 1..Len(st.lines) |->
                   Line(st.lines[i].name, st.lines[i].node1.name, st.lines[i].node2.name)]]

----------------------------------------------------------------------------
(* Specification SpecImport: the user loads up to MaxLoads saved projects,  *)
(* among them files with lines that name no node or join a node to itself,   *)
(* and asks the agent to validate what the editor holds.                     *)

MaxLoads == 2

FileNodes == {<<Node("N1", 0, 0, 0), Node("N2", 4000, 0, 0), Node("N3", 2000, 2000, 0)>>,
              <<Node("N1", 0, 0, 0), Node("N2", 4000, 0, 0)>>}

\* a line between two nodes, a line whose node2 names no node, a self-loop
FileLines == <<Line("L1", "N1", "N2"), Line("L2", "N2", "N9"), Line("L3", "N1", "N1")>>

Picked(lns, keep) == SelectSeq(lns, LAMBDA l : l.name \in keep)

SavedFiles ==
    {[readable |-> TRUE, nodes |-> ns, lines |-> Picked(FileLines, keep)] :
        ns \in FileNodes, keep \in SUBSET {"L1", "L2", "L3"}}
    \cup {[readable |-> FALSE]}

InitImport ==
    /\ nodes = [s \in Sessions |-> <<>>]
    /\ lines = [s \in Sessions |-> <<>>]
    /\ conversationId = [s \in Sessions |-> AgentContext]
    /\ validationHistory = NoHistories
    /\ asciiHistory = NoHistories
    /\ valLog = [s \in Sessions |-> <<>>]
    /\ shadow = [s \in Sessions |-> <<>>]
    /\ store = EmptyStore
    /\ storeLog = NoStoreCall
    /\ pc = 0

ImportLoad ==
    \E file \in SavedFiles :
        /\ pc < MaxLoads
        /\ store' = HandleFileLoad(store, file).store
        /\ storeLog' = [op |-> "load", file |-> file,
                        outcome |-> HandleFileLoad(store, file).outcome]
        /\ pc' = pc + 1
        /\ UNCHANGED <<nodes, lines, conversationId, validationHistory, asciiHistory, valLog,
                     shadow>>

\* a request to the agent carries the structure of the store
ImportSend ==
    /\ Edit("s1", StateOf(store))
    /\ UNCHANGED pc

ImportValidate ==
    /\ valLog["s1"] = <<>>
    /\ ValidateCall("s1", 1)
    /\ UNCHANGED pc

NextImport == ImportLoad \/ ImportSend \/ ImportValidate

SpecImport == InitImport /\ [][NextImport]_vars

\* a line of a saved file or of a validated structure that names no node, or joins a
\* node to itself
IsMalformed(ns, line) ==
    \/ line.node1 = line.node2
    \/ ~MapHas(ns, line.node1)
    \/ ~MapHas(ns, line.node2)

\* C18: a structure with a line whose node1 or node2 names no existing node, or a
\* line with node1 = node2, is rejected with an explicit error when it is imported
\* and when it is validated; such a line is never skipped or dropped unreported.
MalformedRejected ==
    /\ (/\ storeLog.op = "load"
        /\ storeLog.file.readable
        /\ \E i \in 1..Len(storeLog.file.lines) :
              IsMalformed(storeLog.file.nodes, storeLog.file.lines[i]))
       => storeLog.outcome = "error"
    /\ \A k \in 1..Len(valLog["s1"]) : \A i \in 1..Len(valLog["s1"][k].lines) :
          IsMalformed(valLog["s1"][k].nodes, valLog["s1"][k].lines[i]) =>
              \E j \in 1..Len(valLog["s1"][k].errors) :
                  valLog["s1"][k].lines[i].name
                      \in Range(valLog["s1"][k].errors[j].affectedLines)

----------------------------------------------------------------------------
(* Deleting a node: executeDeleteNode on the agent's state and removeNode   *)
(* on the editor store.                                                     *)

\* the lines of ls that have the node called name as node1 or node2
LinesOf(ls, name) == {i \in 1..Len(ls) : ls[i].node1 = name \/ ls[i].node2 = name}

\* what deleting the node called name has to leave of the nodes ns and lines ls
DeletedFrom(ns, ls, ns2, ls2, name) ==
    /\ \A i \in 1..Len(ns2) : ns2[i].name # name
    /\ ns2 = SelectSeq(ns, LAMBDA n : n.name # name)
    /\ ls2 = SelectSeq(ls, LAMBDA l : l.node1 # name /\ l.node2 # name)
    /\ LinesOf(ls2, name) = {}

(* C21: a deleteNode call on an existing node leaves no node of that name,  *)
(* removes exactly the lines that have the name as node1 or node2, leaves   *)
(* every other node and line as it was, and no remaining line refers to     *)
(* the deleted name.                                                        *)
DeleteNodeCascades ==
    [][\A name \in NodeNames(nodes["s1"]) :
           ToolCall(ExecuteDeleteNode(nodes["s1"], lines["s1"], name))
               => DeletedFrom(nodes["s1"], lines["s1"], nodes["s1"]', lines["s1"]', name)]_vars

\* the same cascade on the editor store, whose Maps hold one node per name
RemoveNodeCascades ==
    [][\A name \in MapNames(store.nodes) :
           EditorCall(RemoveNode(store, name), [op |-> "removeNode"])
               => /\ ~MapHas(store.nodes', name)
                  /\ store.nodes' = SelectSeq(store.nodes, LAMBDA n : n.name # name)
                  /\ store.lines' = SelectSeq(store.lines,
                         LAMBDA l : l.node1.name # name /\ l.node2.name # name)
                  /\ \A i \in 1..Len(store.lines') :
                         store.lines'[i].node1.name # name /\ store.lines'[i].node2.name # name]_vars

\* deleteNode on a structure in which every node name is borne by one node
DeleteNodeCascadesUniqueNames ==
    [][\A name \in NodeNames(nodes["s1"]) :
           (/\ \A i, j \in 1..Len(nodes["s1"]) :
                   nodes["s1"][i].name = nodes["s1"][j].name => i = j
            /\ ToolCall(ExecuteDeleteNode(nodes["s1"], lines["s1"], name)))
               => DeletedFrom(nodes["s1"], lines["s1"], nodes["s1"]', lines["s1"]', name)]_vars

----------------------------------------------------------------------------
(* Specification SpecTiers: one agent session on one of several layouts of  *)
(* nodes received with the request - flat, one rectangle floor under a      *)
(* single high node, a spread of Y values narrower than two tolerances, and *)
(* a tall frame with two mid levels.  The agent creates at most             *)
(* MaxTierLines lines between the nodes and validates the structure once.   *)
(* pc counts the createLine calls.                                          *)

MaxTierLines == 3

\* five nodes on the ground, three in the plane z = 0 and two in the plane z = 2
FlatFive ==
    <<Node("N1", 0, 0, 0), Node("N2", 2000, 0, 0), Node("N3", 4000, 0, 0),
      Node("N4", 0, 0, 2000), Node("N5", 4000, 0, 2000)>>

\* a 4 m by 3 m rectangle floor and one node 3 m above its corner N1, 5 cm off the
\* plumb line
FloorAndPost ==
    <<Node("N1", 0, 0, 0), Node("N2", 4000, 0, 0), Node("N3", 4000, 0, 3000),
      Node("N4", 0, 0, 3000), Node("N5", 50, 3000, 0)>>

\* the same rectangle, flat: no node above it
FlatFloor ==
    <<Node("N1", 0, 0, 0), Node("N2", 4000, 0, 0), Node("N3", 4000, 0, 3000),
      Node("N4", 0, 0, 3000)>>

\* Y values 0, 0.05 and 0.12: the spread is less than twice the level tolerance
NarrowSpread ==
    <<Node("N1", 0, 0, 0), Node("N2", 2000, 50, 0), Node("N3", 0, 120, 0)>>

\* floor at 0, mid levels at 1 and 9.5, roof at 10
TallFrame ==
    <<Node("N1", 0, 0, 0), Node("N2", 0, 1000, 0), Node("N3", 2000, 9500, 0),
      Node("N4", 0, 10000, 0)>>

TierLayouts == {FlatFive, FloorAndPost, FlatFloor, NarrowSpread, TallFrame}

\* the createLine inputs: every pair of nodes in the order of the node list, and each
\* node to the node listed before it
TierPairs(ns) ==
    {<<ns[q[1]].name, ns[q[2]].name>> :
        q \in {r \in (1..Len(ns)) \X (1..Len(ns)) : r[1] < r[2] \/ r[1] = r[2] + 1}}

InitTiers ==
    \E layout \in TierLayouts :
        /\ nodes = [s \in Sessions |-> IF s = "s1" THEN layout ELSE <<>>]
        /\ lines = [s \in Sessions |-> <<>>]
        /\ conversationId = [s \in Sessions |-> AgentContext]
        /\ validationHistory = NoHistories
        /\ asciiHistory = NoHistories
        /\ valLog = [s \in Sessions |-> <<>>]
        /\ shadow = [s \in Sessions |-> <<>>]
        /\ store = EmptyStore
        /\ storeLog = NoStoreCall
        /\ pc = 0

TierCreateLine ==
    /\ pc < MaxTierLines
    /\ valLog["s1"] = <<>>
    /\ \E p \in TierPairs(nodes["s1"]) :
          Edit("s1", ExecuteCreateLine(nodes["s1"], lines["s1"], p[1], p[2], Undefined))
    /\ pc' = pc + 1

TierValidate ==
    /\ valLog["s1"] = <<>>
    /\ ValidateCall("s1", 1)
    /\ UNCHANGED pc

NextTiers == TierCreateLine \/ TierValidate

SpecTiers == InitTiers /\ [][NextTiers]_vars

\* the issues of one severity in the list a validation returned
IssuesOfSeverity(entry, severity) ==
    {i \in 1..Len(entry.errors) : entry.errors[i].severity = severity}

(* C22: a validation returns valid = true if and only if the list of issues *)
(* it returns holds no issue of critical severity; issues of warning        *)
(* severity are in the list and leave valid as it is.                       *)
ValidIffNoCritical ==
    \A k \in 1..Len(valLog["s1"]) :
        valLog["s1"][k].valid <=> IssuesOfSeverity(valLog["s1"][k], "critical") = {}

\* a valid report that lists a warning
ValidWithWarningWitness ==
    \E k \in 1..Len(valLog["s1"]) :
        /\ valLog["s1"][k].valid
        /\ IssuesOfSeverity(valLog["s1"][k], "warning") # {}

\* line i of a validated structure is a vertical support: its two nodes have the same
\* X and the same Z within 0.1
IsVerticalSupport(entry, i) ==
    LET a == FindNodeIndex(entry.nodes, entry.lines[i].node1)
        b == FindNodeIndex(entry.nodes, entry.lines[i].node2)
    IN /\ a # 0 /\ b # 0
       /\ Abs(entry.nodes[a].x - entry.nodes[b].x) < LevelTolerance
       /\ Abs(entry.nodes[a].z - entry.nodes[b].z) < LevelTolerance

\* the critical illogical_connection issues of a validation that name a line
CriticalIllogicalOf(entry, name) ==
    {j \in 1..Len(entry.errors) :
        /\ entry.errors[j].type = "illogical_connection"
        /\ entry.errors[j].severity = "critical"
        /\ name \in Range(entry.errors[j].affectedLines)}

(* C23: a line whose two endpoints have the same X and the same Z within    *)
(* 0.1 is never reported as an illogical_connection of critical severity,   *)
(* whichever tiers its endpoints are in.                                    *)
VerticalNeverIllogical ==
    \A k \in 1..Len(valLog["s1"]) : \A i \in 1..Len(valLog["s1"][k].lines) :
        IsVerticalSupport(valLog["s1"][k], i) =>
            CriticalIllogicalOf(valLog["s1"][k], valLog["s1"][k].lines[i].name) = {}

\* a validated structure with a vertical support from the floor tier to the roof
\* tier, 5 cm off the plumb line, next to a diagonal that is reported
VerticalSupportWitness ==
    \E k \in 1..Len(valLog["s1"]) : \E i, d \in 1..Len(valLog["s1"][k].lines) :
        /\ IsVerticalSupport(valLog["s1"][k], i)
        /\ valLog["s1"][k].lines[i].node1 = "N1" /\ valLog["s1"][k].lines[i].node2 = "N5"
        /\ valLog["s1"][k].nodes = FloorAndPost
        /\ CriticalIllogicalOf(valLog["s1"][k], valLog["s1"][k].lines[i].name) = {}
        /\ CriticalIllogicalOf(valLog["s1"][k], valLog["s1"][k].lines[d].name) # {}

\* the tiers a node of a validated structure is classified into
TiersOf(n, ns) ==
    {t \in {"floor", "roof", "mid"} :
        \/ t = "floor" /\ IsFloor(n, ns)
        \/ t = "roof" /\ IsRoof(n, ns)
        \/ t = "mid" /\ IsMid(n, ns)}

(* C24: in every validation of a non-empty structure each node is           *)
(* classified into exactly one of the tiers floor, roof and mid, whatever   *)
(* the spread of the Y values.                                              *)
TiersPartition ==
    \A k \in 1..Len(valLog["s1"]) : \A i \in 1..Len(valLog["s1"][k].nodes) :
        Cardinality(TiersOf(valLog["s1"][k].nodes[i], valLog["s1"][k].nodes)) = 1

\* no node is left without a tier
TiersCover ==
    \A k \in 1..Len(valLog["s1"]) : \A i \in 1..Len(valLog["s1"][k].nodes) :
        TiersOf(valLog["s1"][k].nodes[i], valLog["s1"][k].nodes) # {}

\* where the Y values spread over 0.2 or more, the tiers are disjoint
TiersPartitionWhenSpread ==
    \A k \in 1..Len(valLog["s1"]) : \A i \in 1..Len(valLog["s1"][k].nodes) :
        MaxY(valLog["s1"][k].nodes) - MinY(valLog["s1"][k].nodes) >= 2 * LevelTolerance
            => Cardinality(TiersOf(valLog["s1"][k].nodes[i], valLog["s1"][k].nodes)) = 1

----------------------------------------------------------------------------
(* Saving the editor's structure to a file and loading the file again.      *)

\* a variant of the file in which each line is written with node2 before node1
ExportToJSONReversed(nds, lns) ==
    [readable |-> TRUE,
     nodes |-> [i \in 1..Len(nds) |-> Node(nds[i].name, nds[i].x, nds[i].y, nds[i].z)],
     lines |-> [i \in 1..Len(lns) |-> Line(lns[i].name, lns[i].node2.name, lns[i].node1.name)]]

\* exportToJSON: the file holds name, x, y, z of each node of the Map and name,
\* node1.name, node2.name of each line, in the order of the Maps
ExportToJSON(nds, lns) ==
    [readable |-> TRUE,
     nodes |-> [i \in 1..Len(nds) |-> Node(nds[i].name, nds[i].x, nds[i].y, nds[i].z)],
     lines |-> [i \in 1..Len(lns) |-> Line(lns[i].name, lns[i].node1.name, lns[i].node2.name)]]

(* Specification SpecSave: the user of SpecEditor, who can also save the    *)
(* structure and load the saved file at once.                               *)

\* handleSave followed by handleFileLoad on the file written
EditorSaveLoad ==
    EditorCall(HandleFileLoad(store, ExportToJSON(store.nodes, store.lines)).store,
               [op |-> "saveLoad", before |-> store])

NextSave ==
    \/ EditorAddLine \/ EditorAddNode \/ EditorRemoveLine \/ EditorRemoveNode
    \/ EditorSaveLoad

SpecSave == InitEditor /\ [][NextSave]_vars

\* the structure of a store: its nodes as (name, x, y, z) and its lines as
\* (name, node1, node2)
NodeSetOf(st) == {<<st.nodes[i].name, st.nodes[i].x, st.nodes[i].y, st.nodes[i].z>> :
                     i \in 1..Len(st.nodes)}

LineSetOf(st) == {<<st.lines[i].name, st.lines[i].node1.name, st.lines[i].node2.name>> :
                     i \in 1..Len(st.lines)}

\* unique names, and every line's endpoints are names of nodes
WellFormedStore(st) ==
    /\ \A i, j \in 1..Len(st.nodes) : st.nodes[i].name = st.nodes[j].name => i = j
    /\ \A i, j \in 1..Len(st.lines) : st.lines[i].name = st.lines[j].name => i = j
    /\ \A i \in 1..Len(st.lines) :
          MapHas(st.nodes, st.lines[i].node1.name) /\ MapHas(st.nodes, st.lines[i].node2.name)

(* C25: for every well-formed structure, loading the file that saving it    *)
(* wrote gives the same set of nodes (name, x, y, z) and the same set of    *)
(* lines (name, node1, node2).                                              *)
ExportImportIdentity ==
    (storeLog.op = "saveLoad" /\ WellFormedStore(storeLog.before)) =>
        /\ NodeSetOf(store) = NodeSetOf(storeLog.before)
        /\ LineSetOf(store) = LineSetOf(storeLog.before)

\* a structure with a junction, split lines and a line that still holds the replaced
\* object of a re-entered node has been saved and loaded
ExportImportWitness ==
    /\ storeLog.op = "saveLoad"
    /\ WellFormedStore(storeLog.before)
    /\ Len(storeLog.before.lines) >= 2
    /\ \E i \in 1..Len(storeLog.before.lines) :
          storeLog.before.lines[i].node1 # MapGet(storeLog.before.nodes,
                                                  storeLog.before.lines[i].node1.name)

----------------------------------------------------------------------------
(* Specification SpecReorder: one agent session on the bridge structure of  *)
(* SpecBreaker whose agent creates and deletes the two diagonal supports of *)
(* the deck node, so that the same lines come to be stored in another       *)
(* order, and validates at most MaxReorderCalls times.                      *)

MaxReorderCalls == 3

\* the two diagonal supports of the deck node N3
ReorderPairs == {<<"N3", "N1">>, <<"N3", "N2">>}

ReorderCreateLine ==
    \E p \in ReorderPairs :
        /\ Edit("s1", ExecuteCreateLine(nodes["s1"], lines["s1"], p[1], p[2], Undefined))
        /\ UNCHANGED pc

ReorderDeleteLine ==
    \E l \in LineNames(lines["s1"]) :
        /\ Edit("s1", ExecuteDeleteLine(nodes["s1"], lines["s1"], l))
        /\ UNCHANGED pc

ReorderValidate ==
    /\ Len(valLog["s1"]) < MaxReorderCalls
    /\ ValidateCall("s1", MaxReorderCalls)
    /\ UNCHANGED pc

NextReorder == ReorderCreateLine \/ ReorderDeleteLine \/ ReorderValidate

SpecReorder == InitBreaker /\ [][NextReorder]_vars

\* validations i and j are of the same nodes and the same set of lines
SameStructure(log, i, j) ==
    /\ log[i].nodes = log[j].nodes
    /\ Range(log[i].lines) = Range(log[j].lines)
    /\ Len(log[i].lines) = Len(log[j].lines)

(* C26: two consecutive failing validations of the same nodes and the same  *)
(* set of lines, whatever the order in which the lines are stored, have the *)
(* same signature, and the second counts as a repetition of the first.      *)
SignatureOrderIndependent ==
    \A k \in 2..Len(valLog["s1"]) :
        (/\ ~valLog["s1"][k - 1].valid
         /\ ~valLog["s1"][k].valid
         /\ SameStructure(valLog["s1"], k - 1, k))
        => /\ valLog["s1"][k].signature = valLog["s1"][k - 1].signature
           /\ valLog["s1"][k].count > valLog["s1"][k - 1].count

\* the same between validations whose lines are also stored in the same order
SignatureStableSameOrder ==
    \A k \in 2..Len(valLog["s1"]) :
        (/\ ~valLog["s1"][k - 1].valid
         /\ ~valLog["s1"][k].valid
         /\ valLog["s1"][k - 1].nodes = valLog["s1"][k].nodes
         /\ valLog["s1"][k - 1].lines = valLog["s1"][k].lines)
        => /\ valLog["s1"][k].signature = valLog["s1"][k - 1].signature
           /\ valLog["s1"][k].count > valLog["s1"][k - 1].count

----------------------------------------------------------------------------
(* The name of a junction node.                                             *)

\* the names of the first count nodes of the store
NamesBefore(count) == {store.nodes[i].name : i \in 1..count}

(* C27: each junction node the resolver creates is named N<k> with k the    *)
(* smallest positive integer for which N<k> is not yet the name of a node   *)
(* of the structure.                                                        *)
JunctionNameLowestUnused ==
    Resolved =>
        \A j \in 1..(Len(store.nodes) - Len(storeLog.before.nodes)) :
            store.nodes[Len(storeLog.before.nodes) + j].name
                = LowestUnused("N", NamesBefore(Len(storeLog.before.nodes) + j - 1))

\* the name is the lowest unused one whenever the structure's names are N1..N<size>
JunctionNameLowestWhenDense ==
    (Resolved /\ MapNames(storeLog.before.nodes)
                    = {"N" \o ToString(k) : k \in 1..Len(storeLog.before.nodes)}) =>
        \A j \in 1..(Len(store.nodes) - Len(storeLog.before.nodes)) :
            store.nodes[Len(storeLog.before.nodes) + j].name
                = LowestUnused("N", NamesBefore(Len(storeLog.before.nodes) + j - 1))

----------------------------------------------------------------------------
(* validateAsciiStructure: the coordinates of a plan against the shape its   *)
(* ASCII art shows.  A mismatch is kept as the template of its message and   *)
(* the values written into it; the suggested fixes, which no decision        *)
(* reads, are not kept.                                                      *)

AsciiLevelTolerance == 10

ApexCenterTolerance == 500

HouseLevels == 3

PyramidLevels == 2

BaseCorners == 4

ApexCount == 1

AsciiSignatureIssues == 2

AsciiBreakerThreshold == 3

\* a step of a plan: its text matches "node N<k> at (x, y, z)" with three numbers,
\* or it does not
NodeStep(name, x, y, z) == [matches |-> TRUE, node |-> Node(name, x, y, z)]

TextStep == [matches |-> FALSE]

ExtractNodesFromSteps(steps) ==
    [i \in 1..Len(SelectSeq(steps, LAMBDA st : st.matches)) |->
        SelectSeq(steps, LAMBDA st : st.matches)[i].node]

\* the levels Map in insertion order: a node joins the first level within the
\* tolerance of its Y, or opens a level keyed by its Y
RECURSIVE GroupNodesByYLevel(_)
GroupNodesByYLevel(ns) ==
    IF ns = <<>> THEN <<>>
    ELSE LET levels == GroupNodesByYLevel(SubSeq(ns, 1, Len(ns) - 1))
             node == ns[Len(ns)]
             close == {i \in 1..Len(levels) :
                          Abs(node.y - levels[i].level) < AsciiLevelTolerance}
         IN IF close = {} THEN Append(levels, [level |-> node.y, nodes |-> <<node>>])
            ELSE [levels EXCEPT ![SetMin(close)].nodes = Append(@, node)]

\* Array.from(levels.entries()).sort((a, b) => a[0] - b[0])
RECURSIVE SortedLevels(_)
SortedLevels(levels) ==
    IF levels = <<>> THEN <<>>
    ELSE LET m == CHOOSE i \in 1..Len(levels) :
                      \A j \in 1..Len(levels) : levels[i].level <= levels[j].level
         IN <<levels[m]>> \o SortedLevels(SubSeq(levels, 1, m - 1)
                                          \o SubSeq(levels, m + 1, Len(levels)))

Mismatch(text, nums, xz) == [text |-> text, nums |-> nums, xz |-> BagOf(xz)]

\* `y=${y} (${nodes.length} nodes)` of every level
LevelSummary(sorted) ==
    Flatten([i \in 1..Len(sorted) |-> <<sorted[i].level, Len(sorted[i].nodes)>>])

\* levelNodes.map(n => `${n.x},${n.z}`).sort(), compared as a whole
XZOf(levelNodes) == [i \in 1..Len(levelNodes) |-> <<levelNodes[i].x, levelNodes[i].z>>]

SumOf(levelNodes, axis) ==
    LET RECURSIVE Sum(_)
        Sum(k) == IF k = 0 THEN 0
                  ELSE Sum(k - 1) + (IF axis = "x" THEN levelNodes[k].x ELSE levelNodes[k].z)
    IN Sum(Len(levelNodes))

HouseLevelIssues(sorted) ==
    IF Len(sorted) # HouseLevels
    THEN <<Mismatch("House requires 3 Y-levels, but found", <<Len(sorted)>>, <<>>),
           Mismatch("Expected: Layer 1, Layer 2, Layer 3", <<>>, <<>>),
           Mismatch("Found Y-levels", LevelSummary(sorted), <<>>)>>
    ELSE <<>>

LayerIssue(sorted, layer, count, text) ==
    IF Len(sorted) >= layer /\ Len(sorted[layer].nodes) # count
    THEN <<Mismatch(text, <<Len(sorted[layer].nodes), sorted[layer].level>>, <<>>)>>
    ELSE <<>>

AlignmentIssues(sorted) ==
    IF Len(sorted) >= 2 /\ BagOf(XZOf(sorted[1].nodes)) # BagOf(XZOf(sorted[2].nodes))
    THEN <<Mismatch("Walls should be directly above base", <<>>, <<>>),
           Mismatch("Base X/Z", <<>>, XZOf(sorted[1].nodes)),
           Mismatch("Wall X/Z", <<>>, XZOf(sorted[2].nodes))>>
    ELSE <<>>

\* |apex.x - avgX| > 0.5 or |apex.z - avgZ| > 0.5, the averages over the 4 base nodes
ApexOffCenter(base, apex) ==
    \/ Abs(BaseCorners * apex.x - SumOf(base, "x")) > BaseCorners * ApexCenterTolerance
    \/ Abs(BaseCorners * apex.z - SumOf(base, "z")) > BaseCorners * ApexCenterTolerance

CenterIssues(sorted) ==
    IF /\ Len(sorted) = HouseLevels
       /\ Len(sorted[1].nodes) = BaseCorners
       /\ ApexOffCenter(sorted[1].nodes, sorted[3].nodes[1])
    THEN <<Mismatch("Roof apex should be centered above base",
                    <<sorted[3].nodes[1].x, sorted[3].nodes[1].z,
                      SumOf(sorted[1].nodes, "x"), SumOf(sorted[1].nodes, "z")>>, <<>>)>>
    ELSE <<>>

HouseIssues(sorted) ==
    HouseLevelIssues(sorted)
    \o LayerIssue(sorted, 1, BaseCorners, "Base layer should have 4 corner nodes")
    \o LayerIssue(sorted, 2, BaseCorners, "Wall-top layer should have 4 corner nodes")
    \o LayerIssue(sorted, 3, ApexCount, "Roof apex should be 1 node at top")
    \o AlignmentIssues(sorted)
    \o CenterIssues(sorted)

ValidateHouseStructure(ns) ==
    [valid |-> HouseIssues(SortedLevels(GroupNodesByYLevel(ns))) = <<>>,
     mismatches |-> HouseIssues(SortedLevels(GroupNodesByYLevel(ns)))]

PyramidIssues(sorted) ==
    (IF Len(sorted) # PyramidLevels
     THEN <<Mismatch("Pyramid requires 2 Y-levels, found", <<Len(sorted)>>, <<>>)>> ELSE <<>>)
    \o (IF Len(sorted) > 0 /\ Len(sorted[1].nodes) # BaseCorners
        THEN <<Mismatch("Base should have 4 corners, found", <<Len(sorted[1].nodes)>>, <<>>)>>
        ELSE <<>>)
    \o (IF Len(sorted) > 1 /\ Len(sorted[2].nodes) # ApexCount
        THEN <<Mismatch("Apex should be 1 node, found", <<Len(sorted[2].nodes)>>, <<>>)>>
        ELSE <<>>)

ValidatePyramidStructure(ns) ==
    [valid |-> PyramidIssues(SortedLevels(GroupNodesByYLevel(ns))) = <<>>,
     mismatches |-> PyramidIssues(SortedLevels(GroupNodesByYLevel(ns)))]

UpperCaseLetters == "ABCDEFGHIJKLMNOPQRSTUVWXYZ"

LowerCaseLetters == "abcdefghijklmnopqrstuvwxyz"

\* String.prototype.toLowerCase on the letters A to Z
RECURSIVE ToLowerCase(_)
ToLowerCase(text) ==
    IF Len(text) = 0 THEN ""
    ELSE LET first == SubSeq(text, 1, 1)
             at == {i \in 1..Len(UpperCaseLetters) : SubSeq(UpperCaseLetters, i, i) = first}
         IN (IF at = {} THEN first ELSE SubSeq(LowerCaseLetters, SetMin(at), SetMin(at)))
            \o ToLowerCase(SubSeq(text, 2, Len(text)))

\* structureType?.toLowerCase() || '', else what the ASCII art shows
DetectedType(input) ==
    IF input.structureType # Undefined /\ input.structureType # ""
    THEN ToLowerCase(input.structureType)
    ELSE IF Includes(input.asciiArt, "/\\") /\ Includes(input.asciiArt, "|") THEN "house"
    ELSE IF Includes(input.asciiArt, "/\\") /\ ~Includes(input.asciiArt, "|") THEN "pyramid"
    ELSE ""

\* JSON.stringify(validation.mismatches?.slice(0, 2) || [])
AsciiSignature(mismatches) ==
    SubSeq(mismatches, 1, IF Len(mismatches) < AsciiSignatureIssues
                          THEN Len(mismatches) ELSE AsciiSignatureIssues)

\* history.count after this failing validation; stored is <<>> where the Map has no
\* record of the key
AsciiNextCount(stored, signature) ==
    IF stored # <<>> /\ stored[1].lastError = signature THEN stored[1].count + 1 ELSE 1

AsciiTriggers(count) == count >= AsciiBreakerThreshold

AsciiResult(success, hasData, generic, valid, triggered, count, signature, stored) ==
    [success |-> success, hasData |-> hasData, generic |-> generic, valid |-> valid,
     circuitBreakerTriggered |-> triggered, count |-> count, signature |-> signature,
     stored |-> stored]

\* what a house or pyramid validation leads to
AsciiDecision(validation, stored) ==
    IF validation.valid
    THEN AsciiResult(TRUE, TRUE, FALSE, TRUE, FALSE, 0, <<>>, <<>>)
    ELSE AsciiResult(TRUE, TRUE, FALSE, FALSE,
             AsciiTriggers(AsciiNextCount(stored, AsciiSignature(validation.mismatches))),
             AsciiNextCount(stored, AsciiSignature(validation.mismatches)),
             AsciiSignature(validation.mismatches),
             <<[count |-> AsciiNextCount(stored, AsciiSignature(validation.mismatches)),
                lastError |-> AsciiSignature(validation.mismatches)]>>)

\* The whole of executeValidateAsciiStructure on an input with the stored history of
\* its key: the result returned and the history stored afterwards
ExecuteValidateAsciiStructure(input, stored) ==
    IF Len(ExtractNodesFromSteps(input.steps)) = 0
    THEN AsciiResult(FALSE, FALSE, FALSE, FALSE, FALSE, 0, <<>>, stored)
    ELSE IF DetectedType(input) = "house"
    THEN AsciiDecision(ValidateHouseStructure(ExtractNodesFromSteps(input.steps)), stored)
    ELSE IF DetectedType(input) = "pyramid"
    THEN AsciiDecision(ValidatePyramidStructure(ExtractNodesFromSteps(input.steps)), stored)
    ELSE AsciiResult(TRUE, TRUE, TRUE, TRUE, FALSE, 0, <<>>, stored)

----------------------------------------------------------------------------
(* Specification SpecAscii: the reviewer of one session has its plans       *)
(* validated against their ASCII art, at most MaxAsciiCalls times.  pc      *)
(* counts the calls.                                                        *)

MaxAsciiCalls == 5

\* the plan of the loop the breaker was written for: every node at y = 0
BadPlan ==
    <<NodeStep("N1", 0, 0, 0), NodeStep("N2", 4000, 0, 0), NodeStep("N3", 4000, 0, 3000),
      NodeStep("N4", 0, 0, 3000), NodeStep("N5", 0, 0, 0), NodeStep("N6", 4000, 0, 0),
      NodeStep("N7", 4000, 0, 3000), NodeStep("N8", 0, 0, 3000),
      NodeStep("N9", 2000, 0, 1500)>>

\* base, wall tops 3 m above it and the apex above the centre
HousePlan ==
    <<NodeStep("N1", 0, 0, 0), NodeStep("N2", 4000, 0, 0), NodeStep("N3", 4000, 0, 3000),
      NodeStep("N4", 0, 0, 3000), TextStep, NodeStep("N5", 0, 3000, 0),
      NodeStep("N6", 4000, 3000, 0), NodeStep("N7", 4000, 3000, 3000),
      NodeStep("N8", 0, 3000, 3000), NodeStep("N9", 2000, 4000, 1500)>>

\* base and apex
PyramidPlan ==
    <<NodeStep("N1", 0, 0, 0), NodeStep("N2", 4000, 0, 0), NodeStep("N3", 4000, 0, 3000),
      NodeStep("N4", 0, 0, 3000), NodeStep("N5", 2000, 3000, 1500)>>

HouseArt == "  /\\  \n /__\\ \n |  | "

PyramidArt == "  /\\  \n /__\\ "

AsciiInput(asciiArt, steps, structureType) ==
    [asciiArt |-> asciiArt, steps |-> steps, structureType |-> structureType]

\* the requests of the reviewer: the bad plan as a house, a good house recognised by
\* its art, the pyramid plan as a pyramid and as a house, the bad plan as a church,
\* and a plan whose steps name no node
AsciiRequests ==
    {AsciiInput(HouseArt, BadPlan, "house"),
     AsciiInput(HouseArt, HousePlan, Undefined),
     AsciiInput(PyramidArt, PyramidPlan, "Pyramid"),
     AsciiInput(PyramidArt, PyramidPlan, "house"),
     AsciiInput(HouseArt, BadPlan, "church"),
     AsciiInput(HouseArt, <<TextStep>>, "house")}

InitAscii ==
    /\ nodes = [s \in Sessions |-> <<>>]
    /\ lines = [s \in Sessions |-> <<>>]
    /\ conversationId = [s \in Sessions |-> AgentContext]
    /\ validationHistory = NoHistories
    /\ asciiHistory = NoHistories
    /\ valLog = [s \in Sessions |-> <<>>]
    /\ shadow = [s \in Sessions |-> <<>>]
    /\ store = EmptyStore
    /\ storeLog = NoStoreCall
    /\ pc = 0

AsciiLogEntry(input, r) ==
    [input |-> input, success |-> r.success, hasData |-> r.hasData, generic |-> r.generic,
     valid |-> r.valid, triggered |-> r.circuitBreakerTriggered, count |-> r.count,
     signature |-> r.signature]

AsciiValidate ==
    \E input \in AsciiRequests :
        LET key == HistoryKey(conversationId["s1"])
            r == ExecuteValidateAsciiStructure(input, asciiHistory[key])
        IN /\ pc < MaxAsciiCalls
           /\ asciiHistory' = [asciiHistory EXCEPT ![key] = r.stored]
           /\ valLog' = [valLog EXCEPT !["s1"] = Append(@, AsciiLogEntry(input, r))]
           /\ pc' = pc + 1
           /\ UNCHANGED <<nodes, lines, conversationId, validationHistory, shadow, store,
                          storeLog>>

NextAscii == AsciiValidate

SpecAscii == InitAscii /\ [][NextAscii]_vars

\* a validation that returned valid = false, and one that returned valid = true
AsciiFailing(entry) == entry.success /\ entry.hasData /\ ~entry.valid

AsciiPassing(entry) == entry.success /\ entry.hasData /\ entry.valid

\* validations i..j are of one failing plan, and the count starts anew at i: i is the
\* first validation of the session, or follows a passing validation or a failure with
\* other leading mismatches
AsciiRun(log, i, j) ==
    /\ \A m \in i..j : log[m].input = log[i].input /\ AsciiFailing(log[m])
    /\ \/ i = 1
       \/ AsciiPassing(log[i - 1])
       \/ AsciiFailing(log[i - 1]) /\ log[i - 1].signature # log[i].signature

(* C28: when one failing plan is validated repeatedly by                     *)
(* validateAsciiStructure in a session with no passing validation in         *)
(* between, the k-th of these validations returns circuitBreakerTriggered    *)
(* exactly when k >= 3, and a passing validation resets the count: the       *)
(* failure after it counts as the first.                                     *)
AsciiThirdRepeatTriggers ==
    \A i \in 1..Len(valLog["s1"]) : \A j \in i..Len(valLog["s1"]) :
        AsciiRun(valLog["s1"], i, j) =>
            (valLog["s1"][j].triggered <=> j - i + 1 >= AsciiBreakerThreshold)

\* the same where the passing validation before the run is one of a house or of a
\* pyramid
AsciiRunAfterTyped(log, i, j) ==
    /\ \A m \in i..j : log[m].input = log[i].input /\ AsciiFailing(log[m])
    /\ \/ i = 1
       \/ AsciiPassing(log[i - 1]) /\ ~log[i - 1].generic
       \/ AsciiFailing(log[i - 1]) /\ log[i - 1].signature # log[i].signature

AsciiThirdRepeatAfterTyped ==
    \A i \in 1..Len(valLog["s1"]) : \A j \in i..Len(valLog["s1"]) :
        AsciiRunAfterTyped(valLog["s1"], i, j) =>
            (valLog["s1"][j].triggered <=> j - i + 1 >= AsciiBreakerThreshold)

----------------------------------------------------------------------------
(* Specification SpecLines: one agent session on the bridge nodes, whose    *)
(* caller creates and deletes lines, at most MaxLineCalls times.  The last  *)
(* call, with the structure it found, is kept in valLog; pc counts the      *)
(* calls.                                                                   *)

MaxLineCalls == 4

\* the names the caller gives for the ends of a line: the three nodes and a node that
\* was never created
LineEnds == {"N1", "N2", "N3", "N9"}

\* the names the caller asks for: none, and one that is taken once a line exists
LineRequestedNames == {Undefined, "L1"}

InitLines ==
    /\ nodes = [s \in Sessions |-> IF s = "s1" THEN BridgeNodes ELSE <<>>]
    /\ lines = [s \in Sessions |-> <<>>]
    /\ conversationId = [s \in Sessions |-> AgentContext]
    /\ validationHistory = NoHistories
    /\ asciiHistory = NoHistories
    /\ valLog = [s \in Sessions |-> <<>>]
    /\ shadow = [s \in Sessions |-> <<>>]
    /\ store = EmptyStore
    /\ storeLog = NoStoreCall
    /\ pc = 0

LineCall(op, node1, node2, out) ==
    /\ pc < MaxLineCalls
    /\ nodes' = [nodes EXCEPT !["s1"] = out.nodes]
    /\ lines' = [lines EXCEPT !["s1"] = out.lines]
    /\ valLog' = [valLog EXCEPT !["s1"] =
                     <<[op |-> op, node1 |-> node1, node2 |-> node2, success |-> out.success,
                        nodes |-> nodes["s1"], lines |-> lines["s1"]]>>]
    /\ pc' = pc + 1
    /\ UNCHANGED <<conversationId, validationHistory, asciiHistory, shadow, store, storeLog>>

LinesCreateLine ==
    \E node1 \in LineEnds : \E node2 \in LineEnds : \E name \in LineRequestedNames :
        LineCall("createLine", node1, node2,
                 ExecuteCreateLine(nodes["s1"], lines["s1"], node1, node2, name))

LinesDeleteLine ==
    \E l \in LineNames(lines["s1"]) :
        LineCall("deleteLine", l, l, ExecuteDeleteLine(nodes["s1"], lines["s1"], l))

NextLines == LinesCreateLine \/ LinesDeleteLine

SpecLines == InitLines /\ [][NextLines]_vars

\* the last call was createLine
LastCreateLine == valLog["s1"] # <<>> /\ valLog["s1"][1].op = "createLine"

\* the call named one node twice, a node that the structure did not have, or two nodes
\* that a line of the structure joined already
CreateLineRefusable(call) ==
    \/ call.node1 = call.node2
    \/ \A i \in 1..Len(call.nodes) : call.nodes[i].name # call.node1
    \/ \A i \in 1..Len(call.nodes) : call.nodes[i].name # call.node2
    \/ \E i \in 1..Len(call.lines) :
          {call.lines[i].node1, call.lines[i].node2} = {call.node1, call.node2}

(* C29: executeCreateLine returns success = false and leaves the nodes and   *)
(* the lines of the structure unchanged when node1 equals node2, when        *)
(* either named node does not exist, or when a line already joins the two    *)
(* nodes in either direction; otherwise it succeeds and adds exactly one     *)
(* line, from node1 to node2.                                                *)
CreateLineGuards ==
    LastCreateLine =>
        LET call == valLog["s1"][1]
            after == lines["s1"]
        IN /\ nodes["s1"] = call.nodes
           /\ IF CreateLineRefusable(call)
              THEN ~call.success /\ after = call.lines
              ELSE /\ call.success
                   /\ Len(after) = Len(call.lines) + 1
                   /\ SubSeq(after, 1, Len(call.lines)) = call.lines
                   /\ after[Len(after)].node1 = call.node1
                   /\ after[Len(after)].node2 = call.node2

\* createLine(N2, N1) was refused because a line from N1 to N2 existed, after a line
\* has been added
CreateLineReverseWitness ==
    /\ LastCreateLine
    /\ valLog["s1"][1].node1 = "N2" /\ valLog["s1"][1].node2 = "N1"
    /\ ~valLog["s1"][1].success
    /\ \E i \in 1..Len(lines["s1"]) : lines["s1"][i].node1 = "N1" /\ lines["s1"][i].node2 = "N2"
    /\ Len(lines["s1"]) >= 2

----------------------------------------------------------------------------
(* The perimeter of a rectangular floor (SpecTiers).                        *)

\* the four nodes of a floor tier stand on the corners of an axis-aligned rectangle
IsFloorRectangle(floor) ==
    /\ Len(floor) = RectangleCorners
    /\ \E x1, x2 \in {floor[i].x : i \in 1..Len(floor)} :
       \E z1, z2 \in {floor[i].z : i \in 1..Len(floor)} :
          /\ x1 < x2 /\ z1 < z2
          /\ {<<floor[i].x, floor[i].z>> : i \in 1..Len(floor)} = {x1, x2} \X {z1, z2}

\* the name of the node of a rectangular floor at one corner
CornerName(floor, x, z) ==
    (CHOOSE n \in Range(floor) : n.x = x /\ n.z = z).name

\* front, right, back and left edge of a rectangular floor, each as its pair of corners
PerimeterEdges(floor) ==
    LET xs == {floor[i].x : i \in 1..Len(floor)}
        zs == {floor[i].z : i \in 1..Len(floor)}
    IN {{CornerName(floor, SetMin(xs), SetMin(zs)), CornerName(floor, SetMax(xs), SetMin(zs))},
        {CornerName(floor, SetMax(xs), SetMin(zs)), CornerName(floor, SetMax(xs), SetMax(zs))},
        {CornerName(floor, SetMax(xs), SetMax(zs)), CornerName(floor, SetMin(xs), SetMax(zs))},
        {CornerName(floor, SetMin(xs), SetMax(zs)), CornerName(floor, SetMin(xs), SetMin(zs))}}

\* the critical missing_connection issues of a validation whose affected nodes are
\* the two nodes of edge
MissingConnectionsOf(entry, edge) ==
    {j \in 1..Len(entry.errors) :
        /\ entry.errors[j].type = "missing_connection"
        /\ entry.errors[j].severity = "critical"
        /\ entry.errors[j].hasNodes
        /\ Len(entry.errors[j].affectedNodes) = 2
        /\ Range(entry.errors[j].affectedNodes) = edge}

\* a line of the validated structure joins the two nodes of edge, in either direction
EdgePresent(entry, edge) ==
    \E i \in 1..Len(entry.lines) : {entry.lines[i].node1, entry.lines[i].node2} = edge

(* C30: when the floor tier of a validated structure has exactly 4 nodes on *)
(* the corners of an axis-aligned rectangle, each of the four perimeter      *)
(* edges that no line joins is reported as one critical missing_connection   *)
(* issue whose affected nodes are exactly its two corners, and an edge that  *)
(* a line joins in either direction is not reported.                         *)
FloorPerimeterReported ==
    \A k \in 1..Len(valLog["s1"]) :
        IsFloorRectangle(FloorNodes(valLog["s1"][k].nodes)) =>
            \A edge \in PerimeterEdges(FloorNodes(valLog["s1"][k].nodes)) :
                Cardinality(MissingConnectionsOf(valLog["s1"][k], edge))
                    = IF EdgePresent(valLog["s1"][k], edge) THEN 0 ELSE 1

\* a validated rectangular floor with its left edge drawn from the front corner to the
\* back corner, against the order in which the edge is looked up, its front edge
\* drawn and its back edge missing
FloorPerimeterWitness ==
    \E k \in 1..Len(valLog["s1"]) :
        /\ IsFloorRectangle(FloorNodes(valLog["s1"][k].nodes))
        /\ \E i \in 1..Len(valLog["s1"][k].lines) :
              valLog["s1"][k].lines[i].node1 = "N1" /\ valLog["s1"][k].lines[i].node2 = "N4"
        /\ EdgePresent(valLog["s1"][k], {"N1", "N2"})
        /\ MissingConnectionsOf(valLog["s1"][k], {"N3", "N4"}) # {}

----------------------------------------------------------------------------
(* Specification SpecCross: one agent session on six nodes in the plane     *)
(* z = 0: a 4 m beam N1-N2 and two 2 m posts N3-N4 and N5-N6 that cross it  *)
(* 1 m and 3 m along.  The caller creates and deletes lines and calls       *)
(* fixIntersections, at most MaxCrossCalls times.  The last call, with what *)
(* it found and what it reported, is kept in valLog; pc counts the calls.   *)

MaxCrossCalls == 5

CrossNodes ==
    <<Node("N1", 0, 0, 0), Node("N2", 4000, 0, 0),
      Node("N3", 1000, -1000, 0), Node("N4", 1000, 1000, 0),
      Node("N5", 3000, -1000, 0), Node("N6", 3000, 1000, 0)>>

\* the beam, the two posts, and a brace that crosses nothing
CrossPairs == {<<"N1", "N2">>, <<"N3", "N4">>, <<"N5", "N6">>, <<"N4", "N6">>}

InitCross ==
    /\ nodes = [s \in Sessions |-> IF s = "s1" THEN CrossNodes ELSE <<>>]
    /\ lines = [s \in Sessions |-> <<>>]
    /\ conversationId = [s \in Sessions |-> AgentContext]
    /\ validationHistory = NoHistories
    /\ asciiHistory = NoHistories
    /\ valLog = [s \in Sessions |-> <<>>]
    /\ shadow = [s \in Sessions |-> <<>>]
    /\ store = EmptyStore
    /\ storeLog = NoStoreCall
    /\ pc = 0

\* data.intersectionsFixed: intersections.length; the early returns report no fix
IntersectionsFixed(ns, ls) ==
    IF Len(ls) < 2 THEN 0 ELSE Len(FindAllIntersections(ns, ls))

CrossCall(op, out, fixed) ==
    /\ pc < MaxCrossCalls
    /\ nodes' = [nodes EXCEPT !["s1"] = out.nodes]
    /\ lines' = [lines EXCEPT !["s1"] = out.lines]
    /\ valLog' = [valLog EXCEPT !["s1"] =
                     <<[op |-> op, nodes |-> nodes["s1"], lines |-> lines["s1"],
                        intersectionsFixed |-> fixed,
                        nodesAdded |-> Len(out.nodes) - Len(nodes["s1"])]>>]
    /\ pc' = pc + 1
    /\ UNCHANGED <<conversationId, validationHistory, asciiHistory, shadow, store, storeLog>>

CrossCreateLine ==
    \E p \in CrossPairs :
        CrossCall("createLine",
                  ExecuteCreateLine(nodes["s1"], lines["s1"], p[1], p[2], Undefined), 0)

CrossDeleteLine ==
    \E l \in LineNames(lines["s1"]) :
        CrossCall("deleteLine", ExecuteDeleteLine(nodes["s1"], lines["s1"], l), 0)

CrossFixIntersections ==
    CrossCall("fixIntersections", ExecuteFixIntersections(nodes["s1"], lines["s1"]),
              IntersectionsFixed(nodes["s1"], lines["s1"]))

NextCross == CrossCreateLine \/ CrossDeleteLine \/ CrossFixIntersections

SpecCross == InitCross /\ [][NextCross]_vars

\* the last call was fixIntersections
LastFixIntersections == valLog["s1"] # <<>> /\ valLog["s1"][1].op = "fixIntersections"

\* the crossings the call detected in the structure it found
DetectedBy(call) ==
    IF Len(call.lines) < 2 THEN <<>> ELSE FindAllIntersections(call.nodes, call.lines)

\* a node added since the call stands at the crossing, and the two lines are replaced
\* by pieces that end in it
ResolvedAt(call, crossing) ==
    \E k \in (Len(call.nodes) + 1)..Len(nodes["s1"]) :
        /\ nodes["s1"][k].x = crossing.x
        /\ nodes["s1"][k].y = crossing.y
        /\ nodes["s1"][k].z = crossing.z
        /\ \A name \in {crossing.line1, crossing.line2} :
              LET line == call.lines[FindLineIndex(call.lines, name)]
              IN /\ line \notin Range(lines["s1"])
                 /\ [name |-> name \o "a", node1 |-> line.node1,
                     node2 |-> nodes["s1"][k].name] \in Range(lines["s1"])
                 /\ [name |-> name \o "b", node1 |-> nodes["s1"][k].name,
                     node2 |-> line.node2] \in Range(lines["s1"])

(* C31: executeFixIntersections resolves every intersection it detects: for *)
(* each detected crossing pair a junction node is added and both lines are  *)
(* split at it, also when one line takes part in two or more crossings, so  *)
(* the reported intersectionsFixed equals the number of junction nodes      *)
(* added and no detected crossing is left without a junction.               *)
FixResolvesEveryCrossing ==
    LastFixIntersections =>
        /\ valLog["s1"][1].intersectionsFixed = valLog["s1"][1].nodesAdded
        /\ \A i \in 1..Len(DetectedBy(valLog["s1"][1])) :
              ResolvedAt(valLog["s1"][1], DetectedBy(valLog["s1"][1])[i])

\* no line of the structure the call found takes part in two detected crossings
CrossingsDisjoint(call) ==
    \A i, j \in 1..Len(DetectedBy(call)) :
        i # j => {DetectedBy(call)[i].line1, DetectedBy(call)[i].line2}
                 \cap {DetectedBy(call)[j].line1, DetectedBy(call)[j].line2} = {}

\* the same for calls in which every line takes part in at most one crossing
FixResolvesDisjointCrossings ==
    (LastFixIntersections /\ CrossingsDisjoint(valLog["s1"][1])) =>
        /\ valLog["s1"][1].intersectionsFixed = valLog["s1"][1].nodesAdded
        /\ \A i \in 1..Len(DetectedBy(valLog["s1"][1])) :
              ResolvedAt(valLog["s1"][1], DetectedBy(valLog["s1"][1])[i])

----------------------------------------------------------------------------
(* Specification SpecSegments: the two intersection tests applied to two    *)
(* segments whose ends are drawn from SegmentPoints, at most                *)
(* MaxSegmentCalls times.  The last test, with its segments and whether it  *)
(* returned an intersection, is kept in valLog; pc counts the tests.        *)

MaxSegmentCalls == 2

\* three points in a row 1 m apart, two points off the row in its plane, and one
\* point above the plane
SegmentPoints ==
    {Node("P", 0, 0, 0), Node("P", 1000, 0, 0), Node("P", 2000, 0, 0),
     Node("P", 0, 1000, 0), Node("P", 2000, 1000, 0), Node("P", 1000, 1000, 1000)}

InitSegments ==
    /\ nodes = [s \in Sessions |-> <<>>]
    /\ lines = [s \in Sessions |-> <<>>]
    /\ conversationId = [s \in Sessions |-> AgentContext]
    /\ validationHistory = NoHistories
    /\ asciiHistory = NoHistories
    /\ valLog = [s \in Sessions |-> <<>>]
    /\ shadow = [s \in Sessions |-> <<>>]
    /\ store = EmptyStore
    /\ storeLog = NoStoreCall
    /\ pc = 0

SegmentCall(op, p1, p2, q1, q2, hit) ==
    /\ pc < MaxSegmentCalls
    /\ valLog' = [valLog EXCEPT !["s1"] =
                     <<[op |-> op, p1 |-> p1, p2 |-> p2, q1 |-> q1, q2 |-> q2, hit |-> hit]>>]
    /\ pc' = pc + 1
    /\ UNCHANGED <<nodes, lines, conversationId, validationHistory, asciiHistory, shadow,
                   store, storeLog>>

\* lineLineIntersection of the agent's tool: null or an intersection
SegmentsLineLine ==
    \E p1, p2, q1, q2 \in SegmentPoints :
        SegmentCall("lineLineIntersection", p1, p2, q1, q2,
                    LineLineIntersection(p1, p2, q1, q2).hit)

\* checkLineIntersection of the editor, on two lines that hold the points: null or a
\* point
SegmentsCheckLine ==
    \E p1, p2, q1, q2 \in SegmentPoints :
        SegmentCall("checkLineIntersection", p1, p2, q1, q2,
                    CheckLineIntersection(Line3D("L1", p1, p2), Line3D("L2", q1, q2)).hit)

NextSegments == SegmentsLineLine \/ SegmentsCheckLine

SpecSegments == InitSegments /\ [][NextSegments]_vars

\* the cross product of the directions of the two segments is zero: they are parallel
\* or on one line, or one of them has no length
Degenerate(call) ==
    LET ux == call.p2.x - call.p1.x
        uy == call.p2.y - call.p1.y
        uz == call.p2.z - call.p1.z
        vx == call.q2.x - call.q1.x
        vy == call.q2.y - call.q1.y
        vz == call.q2.z - call.q1.z
    IN /\ uy * vz - uz * vy = 0
       /\ uz * vx - ux * vz = 0
       /\ ux * vy - uy * vx = 0

(* C32: for every pair of segments that are parallel or coincident, or of   *)
(* which either has zero length, checkLineIntersection and                  *)
(* lineLineIntersection return no intersection; they return it as their     *)
(* value, there is no other way out of either function on numbers.          *)
DegenerateSegmentsNoIntersection ==
    \A k \in 1..Len(valLog["s1"]) :
        Degenerate(valLog["s1"][k]) => ~valLog["s1"][k].hit

\* checkLineIntersection returned no intersection for the row from 0 to 2 m and its
\* part from 1 m to 2 m, which lie on one line and overlap
CoincidentSegmentsWitness ==
    \E k \in 1..Len(valLog["s1"]) :
        /\ valLog["s1"][k].op = "checkLineIntersection"
        /\ valLog["s1"][k].p1.x = 0 /\ valLog["s1"][k].p2.x = 2000
        /\ valLog["s1"][k].p1.y = 0 /\ valLog["s1"][k].p2.y = 0 /\ valLog["s1"][k].p2.z = 0
        /\ valLog["s1"][k].q1.x = 1000 /\ valLog["s1"][k].q2.x = 2000
        /\ valLog["s1"][k].q1.y = 0 /\ valLog["s1"][k].q2.y = 0
        /\ valLog["s1"][k].q1.z = 0 /\ valLog["s1"][k].q2.z = 0
        /\ ~valLog["s1"][k].hit

----------------------------------------------------------------------------
(* Specification SpecWindow: two conversations on the bridge nodes, each    *)
(* adding and removing the diagonal support of the deck node and validating *)
(* its structure; the two make at most MaxWindowCalls validations together. *)
(* Either both were created by createCrafteaAgent, or both call the tool    *)
(* with a context that carries their own conversation id.                   *)

MaxWindowCalls == 6

WindowCreateLine(s) ==
    /\ Edit(s, ExecuteCreateLine(nodes[s], lines[s], "N3", "N1", Undefined))
    /\ UNCHANGED pc

WindowDeleteLine(s) ==
    \E l \in LineNames(lines[s]) :
        /\ Edit(s, ExecuteDeleteLine(nodes[s], lines[s], l))
        /\ UNCHANGED pc

WindowValidate(s) ==
    /\ Len(valLog["s1"]) + Len(valLog["s2"]) < MaxWindowCalls
    /\ ValidateCall(s, MaxWindowCalls)
    /\ UNCHANGED pc

NextWindow ==
    \E s \in Sessions : WindowCreateLine(s) \/ WindowDeleteLine(s) \/ WindowValidate(s)

SpecWindow == InitTwoSessions /\ [][NextWindow]_vars

\* the line-set snapshots of the failing validations of a session, oldest first
FailingSnapshots(log) ==
    LET failing == SelectSeq(log, LAMBDA entry : ~entry.valid)
    IN [k \in 1..Len(failing) |-> CurrentLines(failing[k].lines)]

\* the window the validator holds for session s; empty when it holds no record
WindowOf(s) ==
    IF validationHistory[HistoryKey(conversationId[s])] = <<>> THEN <<>>
    ELSE validationHistory[HistoryKey(conversationId[s])][1].lastActions

\* window is the end of snapshots
IsSuffix(window, snapshots) ==
    /\ Len(window) <= Len(snapshots)
    /\ window = SubSeq(snapshots, Len(snapshots) - Len(window) + 1, Len(snapshots))

\* the window of session s holds at most 5 snapshots, and they are the snapshots of
\* its most recent failing validations: all of them up to 5 while no validation of
\* the session has been valid
WindowHoldsRecent(s) ==
    /\ Len(WindowOf(s)) <= ActionWindow
    /\ IsSuffix(WindowOf(s), FailingSnapshots(valLog[s]))
    /\ (\A k \in 1..Len(valLog[s]) : ~valLog[s][k].valid)
          => Len(WindowOf(s)) = IF Len(valLog[s]) < ActionWindow
                                THEN Len(valLog[s]) ELSE ActionWindow

(* C33: after every validation, each session's window of line-set           *)
(* snapshots (lastActions) holds at most 5 entries, and they are the        *)
(* snapshots of that session's most recent failing validations, in order.   *)
WindowIsRecentFailures ==
    \A s \in Sessions : valLog[s] # <<>> => WindowHoldsRecent(s)

\* the same for sessions whose tool context carries their own conversation id
WindowIsRecentFailuresOwnId ==
    \A s \in Sessions :
        (valLog[s] # <<>> /\ conversationId[s] # AgentContext) => WindowHoldsRecent(s)

\* six failing validations of one session with its own id: the oldest snapshot has
\* left the window
WindowRolledWitness ==
    /\ conversationId["s1"] # AgentContext
    /\ Len(valLog["s1"]) = 6
    /\ Len(WindowOf("s1")) = ActionWindow
    /\ WindowOf("s1")[1] # FailingSnapshots(valLog["s1"])[1]

----------------------------------------------------------------------------
(* The lines addLine leaves alone (SpecEditor).                             *)

\* the lines the store held before the last call that the detection did not find
\* crossed by the candidate
UncrossedLines ==
    {l \in Range(storeLog.before.lines) :
        \A k \in 1..Len(storeLog.found) : storeLog.found[k].existingLine # l}

\* the names of the pieces a split gives to a line called name
PieceNames(name) == {name \o "a", name \o "b"}

(* C34: adding a line through the store's addLine never removes or replaces *)
(* a line that the candidate does not intersect: every line the store held  *)
(* before that the candidate does not cross is in the store afterwards      *)
(* under the same name with the same two endpoints, whatever names the      *)
(* lines have, names ending in a or b left by earlier splits included.      *)
AddLineKeepsUncrossedLines ==
    storeLog.op = "addLine" => \A l \in UncrossedLines : l \in Range(store.lines)

\* the same for calls in which no line of the store has the name of a piece that
\* the call makes
AddLineKeepsUncrossedFreshNames ==
    (/\ storeLog.op = "addLine"
     /\ \A k \in 1..Len(storeLog.found) :
           (PieceNames(storeLog.line.name) \cup PieceNames(storeLog.found[k].existingLine.name))
               \cap MapNames(storeLog.before.lines) = {})
        => \A l \in UncrossedLines : l \in Range(store.lines)

----------------------------------------------------------------------------
(* Specification SpecShapes: one agent session on a complete shape of the   *)
(* geometry specifications, received with the request: a square pyramid or  *)
(* a house.  The caller deletes lines and creates lines between nodes of    *)
(* the shape, at most MaxShapeEdits times, and may then validate the        *)
(* structure.  pc counts the edits.                                         *)

MaxShapeEdits == 2

\* the lines L1, L2, ... between the pairs of names, in order
LinesBetween(pairs) ==
    [i \in 1..Len(pairs) |-> [name |-> "L" \o ToString(i), node1 |-> pairs[i][1],
                              node2 |-> pairs[i][2]]]

\* SHAPE_SPECS.pyramid: 4 base corners and 1 apex above the centre
PyramidNodes ==
    <<Node("N1", 0, 0, 0), Node("N2", 4000, 0, 0), Node("N3", 4000, 0, 4000),
      Node("N4", 0, 0, 4000), Node("N5", 2000, 3000, 2000)>>

\* 4 base edges and 4 edges from base to apex
PyramidEdges ==
    <<<<"N1", "N2">>, <<"N2", "N3">>, <<"N3", "N4">>, <<"N4", "N1">>,
      <<"N1", "N5">>, <<"N2", "N5">>, <<"N3", "N5">>, <<"N4", "N5">>>>

\* SHAPE_SPECS.house: 4 base corners at y = 0, 4 top-of-wall corners at the wall
\* height and 1 roof apex above the centre
HouseNodes ==
    <<Node("N1", 0, 0, 0), Node("N2", 4000, 0, 0), Node("N3", 4000, 0, 3000),
      Node("N4", 0, 0, 3000), Node("N5", 0, 3000, 0), Node("N6", 4000, 3000, 0),
      Node("N7", 4000, 3000, 3000), Node("N8", 0, 3000, 3000),
      Node("N9", 2000, 4500, 1500)>>

\* 4 base edges, 4 top edges, 4 vertical wall edges, 4 roof edges from the top
\* corners to the apex
HouseEdges ==
    <<<<"N1", "N2">>, <<"N2", "N3">>, <<"N3", "N4">>, <<"N4", "N1">>,
      <<"N5", "N6">>, <<"N6", "N7">>, <<"N7", "N8">>, <<"N8", "N5">>,
      <<"N1", "N5">>, <<"N2", "N6">>, <<"N3", "N7">>, <<"N4", "N8">>,
      <<"N5", "N9">>, <<"N6", "N9">>, <<"N7", "N9">>, <<"N8", "N9">>>>

Shapes ==
    {[nodes |-> PyramidNodes, edges |-> PyramidEdges],
     [nodes |-> HouseNodes, edges |-> HouseEdges]}

InitShapes ==
    /\ \E shape \in Shapes :
          /\ nodes = [s \in Sessions |-> IF s = "s1" THEN shape.nodes ELSE <<>>]
          /\ lines = [s \in Sessions |-> IF s = "s1" THEN LinesBetween(shape.edges) ELSE <<>>]
    /\ conversationId = [s \in Sessions |-> AgentContext]
    /\ validationHistory = NoHistories
    /\ asciiHistory = NoHistories
    /\ valLog = [s \in Sessions |-> <<>>]
    /\ shadow = [s \in Sessions |-> <<>>]
    /\ store = EmptyStore
    /\ storeLog = NoStoreCall
    /\ pc = 0

ShapeEdit(out) ==
    /\ pc < MaxShapeEdits
    /\ valLog["s1"] = <<>>
    /\ Edit("s1", out)
    /\ pc' = pc + 1

ShapeDeleteLine ==
    \E l \in LineNames(lines["s1"]) :
        ShapeEdit(ExecuteDeleteLine(nodes["s1"], lines["s1"], l))

\* the caller joins the first node to another node, or the last node to another node
ShapeCreateLine ==
    \E a \in {nodes["s1"][1].name, nodes["s1"][Len(nodes["s1"])].name} :
    \E b \in NodeNames(nodes["s1"]) :
        ShapeEdit(ExecuteCreateLine(nodes["s1"], lines["s1"], a, b, Undefined))

ShapeValidate ==
    /\ valLog["s1"] = <<>>
    /\ ValidateCall("s1", 1)
    /\ UNCHANGED pc

NextShapes == ShapeDeleteLine \/ ShapeCreateLine \/ ShapeValidate

SpecShapes == InitShapes /\ [][NextShapes]_vars

\* the validated structure has the nodes given, one line for each of the edges given,
\* in either direction, and no other line
IsComplete(entry, shapeNodes, shapeEdges) ==
    /\ entry.nodes = shapeNodes
    /\ Len(entry.lines) = Len(shapeEdges)
    /\ {{entry.lines[i].node1, entry.lines[i].node2} : i \in 1..Len(entry.lines)}
          = {{shapeEdges[i][1], shapeEdges[i][2]} : i \in 1..Len(shapeEdges)}

(* C35: a complete square pyramid - four floor corners joined by the 4 base *)
(* edges plus one apex above the base joined to each corner by 4 edges, and *)
(* no other lines - is reported valid = true by executeValidateStructure.   *)
CompletePyramidValid ==
    \A k \in 1..Len(valLog["s1"]) :
        IsComplete(valLog["s1"][k], PyramidNodes, PyramidEdges) => valLog["s1"][k].valid

(* C40: a complete house - 4 floor corners, 4 wall-top corners directly     *)
(* above them and 1 roof apex, joined by the 4 base edges, 4 wall-top       *)
(* edges, 4 vertical wall edges and 4 roof edges from the wall-top corners  *)
(* to the apex, and no other lines - is reported valid = true by            *)
(* executeValidateStructure, with no critical issue.                        *)
CompleteHouseValid ==
    \A k \in 1..Len(valLog["s1"]) :
        IsComplete(valLog["s1"][k], HouseNodes, HouseEdges) =>
            /\ valLog["s1"][k].valid
            /\ \A j \in 1..Len(valLog["s1"][k].errors) :
                  valLog["s1"][k].errors[j].severity # "critical"

\* a complete house has been validated after one of its roof edges was deleted and
\* drawn again from the apex, so that it is stored last and against its first direction
CompleteHouseWitness ==
    \E k \in 1..Len(valLog["s1"]) :
        /\ IsComplete(valLog["s1"][k], HouseNodes, HouseEdges)
        /\ valLog["s1"][k].lines[Len(HouseEdges)].node1 = "N9"

----------------------------------------------------------------------------
(* Structures of one height (SpecTiers).                                    *)

\* all nodes of the validated structure lie at one height: its Y range is below the
\* tolerance of 0.1
IsFloorOnly(entry) ==
    /\ entry.nodes # <<>>
    /\ \A i, j \in 1..Len(entry.nodes) :
          Abs(entry.nodes[i].y - entry.nodes[j].y) < LevelTolerance

IllogicalOf(entry) ==
    {j \in 1..Len(entry.errors) : entry.errors[j].type = "illogical_connection"}

(* C36: in a structure whose nodes all lie at the same height (Y range      *)
(* below the 0.1 tolerance) no line is reported as an illogical_connection: *)
(* a horizontal edge between two floor nodes is never flagged as a          *)
(* roof-to-floor diagonal.                                                  *)
FloorOnlyNoIllogical ==
    \A k \in 1..Len(valLog["s1"]) :
        IsFloorOnly(valLog["s1"][k]) => IllogicalOf(valLog["s1"][k]) = {}

\* the same for structures whose floor tier and roof tier are apart
TieredFloorEdgesNoIllogical ==
    \A k \in 1..Len(valLog["s1"]) : \A i \in 1..Len(valLog["s1"][k].lines) :
        LET entry == valLog["s1"][k]
            a == FindNodeIndex(entry.nodes, entry.lines[i].node1)
            b == FindNodeIndex(entry.nodes, entry.lines[i].node2)
        IN (/\ a # 0 /\ b # 0
            /\ MaxY(entry.nodes) - MinY(entry.nodes) >= 2 * LevelTolerance
            /\ IsFloor(entry.nodes[a], entry.nodes) /\ IsFloor(entry.nodes[b], entry.nodes))
           => \A j \in IllogicalOf(entry) :
                  entry.lines[i].name \notin Range(entry.errors[j].affectedLines)

----------------------------------------------------------------------------
(* Specification SpecGround: validateStructure on a state the caller sends. *)
(* The state of a tool call is the request's own nodes and lines, so its    *)
(* lines may repeat, join a node to itself, close cycles or name a node     *)
(* that is not there.  pc counts the lines the caller has put in the state. *)

MaxGroundLines == 3

\* a floor node first and three nodes above it, the highest first
GroundNodes ==
    {<<Node("N1", 0, 0, 0), Node("N2", 0, 3000, 0), Node("N3", 0, 2000, 0),
       Node("N4", 0, 1000, 0)>>,
     <<Node("N1", 0, 1000, 0), Node("N2", 1000, 0, 0), Node("N3", 0, 0, 1000)>>}

\* a name no node has
Dangling == "N9"

InitGround ==
    /\ \E ns \in GroundNodes :
          nodes = [s \in Sessions |-> IF s = "s1" THEN ns ELSE <<>>]
    /\ lines = [s \in Sessions |-> <<>>]
    /\ conversationId = [s \in Sessions |-> AgentContext]
    /\ validationHistory = NoHistories
    /\ asciiHistory = NoHistories
    /\ valLog = [s \in Sessions |-> <<>>]
    /\ shadow = [s \in Sessions |-> <<>>]
    /\ store = EmptyStore
    /\ storeLog = NoStoreCall
    /\ pc = 0

\* the caller's state holds one more line, between any two names
GroundSendLine ==
    /\ pc < MaxGroundLines
    /\ valLog["s1"] = <<>>
    /\ \E a \in NodeNames(nodes["s1"]) \cup {Dangling} :
       \E b \in NodeNames(nodes["s1"]) \cup {Dangling} :
          Edit("s1", ToolOutcome(TRUE, nodes["s1"],
                   Append(lines["s1"], [name |-> "L" \o ToString(pc + 1),
                                        node1 |-> a, node2 |-> b])))
    /\ pc' = pc + 1

GroundValidate ==
    /\ valLog["s1"] = <<>>
    /\ ValidateCall("s1", 1)
    /\ UNCHANGED pc

NextGround == GroundSendLine \/ GroundValidate

SpecGround == InitGround /\ [][NextGround]_vars

\* the passes of the while (changed) loop in one call of validateStructure, which
\* returns before the loop when there are no nodes
GroundingPasses(ns, ls) ==
    IF Len(ns) = 0 THEN 0
    ELSE Relax(ns, ls, TraverseFrom(ns, ls, FloorNodes(ns),
                                    [visited |-> {}, grounded |-> {}]).grounded, 0).passes

(* C37: validateStructure ends on every structure, with cycles, repeated    *)
(* lines, lines from a node to itself or lines naming a missing node        *)
(* included, and its grounding loop makes at most as many passes as there   *)
(* are nodes.                                                               *)
GroundingLoopBounded ==
    \A k \in 1..Len(valLog["s1"]) :
        GroundingPasses(valLog["s1"][k].nodes, valLog["s1"][k].lines)
            <= Len(valLog["s1"][k].nodes)

\* a validated chain that needs as many passes as it has nodes
LongestGroundingWitness ==
    \E k \in 1..Len(valLog["s1"]) :
        /\ Len(valLog["s1"][k].nodes) = 4
        /\ GroundingPasses(valLog["s1"][k].nodes, valLog["s1"][k].lines) = 4

\* a validated structure with a self-loop, a repeated line and a dangling reference
IrregularGroundingWitness ==
    \E k \in 1..Len(valLog["s1"]) :
        LET ls == valLog["s1"][k].lines
        IN /\ \E i \in 1..Len(ls) : ls[i].node1 = ls[i].node2
           /\ \E i \in 1..Len(ls) : Dangling \in {ls[i].node1, ls[i].node2}
           /\ \E i, j \in 1..Len(ls) :
                 i # j /\ {ls[i].node1, ls[i].node2} = {ls[j].node1, ls[j].node2}

----------------------------------------------------------------------------
(* The store's undo history: saveHistory, undo and redo.                     *)

\* if (newHistory.length > 50) newHistory.shift()
HistoryLimit == 50

\* saveHistory: the states after historyIndex are dropped, the current nodes and
\* lines are pushed, and the oldest state is dropped when more than HistoryLimit
\* are held
SaveHistory(st) ==
    LET newHistory == Append(SubSeq(st.history, 1, st.historyIndex + 1),
                             [nodes |-> st.nodes, lines |-> st.lines])
        kept == IF Len(newHistory) > HistoryLimit THEN Tail(newHistory) ELSE newHistory
    IN [st EXCEPT !.history = kept, !.historyIndex = Len(kept) - 1]

\* undo that brings back the nodes of the older state and leaves the lines
UndoNodesOnly(st) ==
    IF st.historyIndex > 0
    THEN [st EXCEPT !.nodes = st.history[st.historyIndex].nodes,
                    !.historyIndex = st.historyIndex - 1]
    ELSE st

\* history[k] is the (k + 1)-th element of the sequence
Undo(st) ==
    IF st.historyIndex > 0
    THEN [st EXCEPT !.nodes = st.history[st.historyIndex].nodes,
                    !.lines = st.history[st.historyIndex].lines,
                    !.historyIndex = st.historyIndex - 1]
    ELSE st

Redo(st) ==
    IF st.historyIndex < Len(st.history) - 1
    THEN [st EXCEPT !.nodes = st.history[st.historyIndex + 2].nodes,
                    !.lines = st.history[st.historyIndex + 2].lines,
                    !.historyIndex = st.historyIndex + 1]
    ELSE st

\* clear: nodes: new Map(), lines: new Map()
Clear(st) == [st EXCEPT !.nodes = <<>>, !.lines = <<>>]

----------------------------------------------------------------------------
(* Specification SpecHistory: a user of the editor whose every edit is      *)
(* recorded - the handler calls saveHistory right after the store's edit -   *)
(* and who undoes, redoes and loads a project file.  The user works in a    *)
(* round: enter N1, enter N2, draw L1 between them, delete N1, clear.  pc   *)
(* counts the loadProject and undo calls made.                               *)

MaxProjectLoads == 1

MaxUndos == 3

HistoryEnd1 == Node("N1", 0, 0, 0)

HistoryEnd2 == Node("N2", 4000, 0, 0)

\* the project file the user loads: two nodes and the line between them
LoadedProject ==
    [nodes |-> <<HistoryEnd2, HistoryEnd1>>,
     lines |-> <<Line3D("L1", HistoryEnd2, HistoryEnd1)>>]

\* what the editor shows of the store
Shown(st) == [nodes |-> st.nodes, lines |-> st.lines]

InitHistory ==
    /\ nodes = [s \in Sessions |-> <<>>]
    /\ lines = [s \in Sessions |-> <<>>]
    /\ conversationId = [s \in Sessions |-> AgentContext]
    /\ validationHistory = NoHistories
    /\ asciiHistory = NoHistories
    /\ valLog = [s \in Sessions |-> <<>>]
    /\ shadow = [s \in Sessions |-> <<>>]
    /\ store = EmptyStore
    /\ storeLog = [op |-> "none", prevOp |-> "none", before |-> Shown(EmptyStore),
                   beforePrev |-> Shown(EmptyStore), atIndex |-> 0, atLength |-> 1,
                   prevAtIndex |-> 0]
    /\ pc = [loads |-> 0, undos |-> 0]

\* one call of the user; the observer keeps the call, the call before it, what the
\* store showed before each of them, and where the history stood
HistoryCall(op, after) ==
    /\ store' = after
    /\ storeLog' = [op |-> op, prevOp |-> storeLog.op, before |-> Shown(store),
                    beforePrev |-> storeLog.before, atIndex |-> store.historyIndex,
                    atLength |-> Len(store.history), prevAtIndex |-> storeLog.atIndex]
    /\ UNCHANGED <<nodes, lines, conversationId, validationHistory, asciiHistory, valLog,
                   shadow>>

HistoryAddNode ==
    /\ store.lines = <<>>
    /\ \E node \in {HistoryEnd1, HistoryEnd2} :
          /\ MapNames(store.nodes) = (IF node = HistoryEnd1 THEN {} ELSE {"N1"})
          /\ HistoryCall("edit", SaveHistory(AddNode(store, node)))
    /\ UNCHANGED pc

HistoryAddLine ==
    /\ store.lines = <<>>
    /\ MapNames(store.nodes) = {"N1", "N2"}
    /\ HistoryCall("edit",
           SaveHistory(AddLine(store, Line3D(NextLineName(store.lines),
                                             MapGet(store.nodes, "N1"),
                                             MapGet(store.nodes, "N2")),
                               AutoFixIntersections(
                                   Line3D(NextLineName(store.lines),
                                          MapGet(store.nodes, "N1"),
                                          MapGet(store.nodes, "N2")),
                                   store.nodes, store.lines))))
    /\ UNCHANGED pc

HistoryRemoveNode ==
    /\ store.lines # <<>>
    /\ HistoryCall("edit", SaveHistory(RemoveNode(store, "N1")))
    /\ UNCHANGED pc

HistoryClear ==
    /\ store.lines = <<>>
    /\ MapNames(store.nodes) = {"N2"}
    /\ HistoryCall("edit", SaveHistory(Clear(store)))
    /\ UNCHANGED pc

HistoryLoadProject ==
    /\ pc.loads < MaxProjectLoads
    /\ HistoryCall("load", LoadProject(store, LoadedProject.nodes, LoadedProject.lines))
    /\ pc' = [pc EXCEPT !.loads = @ + 1]

HistoryUndo ==
    /\ pc.undos < MaxUndos
    /\ HistoryCall("undo", Undo(store))
    /\ pc' = [pc EXCEPT !.undos = @ + 1]

HistoryRedo ==
    /\ storeLog.op \in {"undo", "redo"}
    /\ HistoryCall("redo", Redo(store))
    /\ UNCHANGED pc

NextHistory ==
    \/ HistoryAddNode \/ HistoryAddLine \/ HistoryRemoveNode \/ HistoryClear
    \/ HistoryLoadProject \/ HistoryUndo \/ HistoryRedo

SpecHistory == InitHistory /\ [][NextHistory]_vars

(* C38: after any sequence of saveHistory, loadProject, undo and redo calls *)
(* the history holds at most 50 states and historyIndex is the index of one *)
(* of them.                                                                  *)
HistoryBounded ==
    /\ Len(store.history) <= HistoryLimit
    /\ 0 <= store.historyIndex
    /\ store.historyIndex < Len(store.history)

\* the same while no project has been loaded; the index is in range in any case
HistoryBoundedBeforeLoad ==
    /\ pc.loads = 0 => Len(store.history) <= HistoryLimit
    /\ Len(store.history) <= HistoryLimit + MaxProjectLoads
    /\ 0 <= store.historyIndex
    /\ store.historyIndex < Len(store.history)

====
